---- MODULE Spec2Model ----
(***************************************************************************)
(* Event-time tick engine of the evony server: city production, upgrade    *)
(* completion and the raid state machine (enroute -> returning ->          *)
(* resolved), together with the request handlers that create the events    *)
(* the engine resolves.  Timestamps are whole seconds of naive UTC.        *)
(***************************************************************************)
EXTENDS Integers, Sequences, FiniteSets, TLC

\* A NULL column (returns_at, resolved_at, _LAST_GLOBAL_TICK_AT).
None == -1

Max2(a, b) == IF a >= b THEN a ELSE b
Min2(a, b) == IF a <= b THEN a ELSE b
MinOf(S) == CHOOSE x \in S : \A y \in S : x <= y

Res == {"food", "wood", "stone", "iron"}
ZeroRes == [k \in Res |-> 0]

SECONDS_PER_MINUTE == 60

(***************************************************************************)
(* Static catalogue: troop_types as seeded by the migration.               *)
(***************************************************************************)
TroopTypes ==
  [ t1_inf   |-> [id |-> 1, tier |-> 1, attack |-> 10, defense |-> 12, hp |-> 120, speed |-> 100, carry |-> 5],
    t1_rng   |-> [id |-> 2, tier |-> 1, attack |-> 14, defense |-> 8,  hp |-> 90,  speed |-> 105, carry |-> 4],
    t1_cav   |-> [id |-> 3, tier |-> 1, attack |-> 16, defense |-> 9,  hp |-> 100, speed |-> 120, carry |-> 6],
    t1_siege |-> [id |-> 4, tier |-> 1, attack |-> 22, defense |-> 6,  hp |-> 80,  speed |-> 70,  carry |-> 20] ]

TroopCodes == DOMAIN TroopTypes

\* Unit powers times ten: attack + 0.10*hp and defense + 0.10*hp.
atk_unit_power10(code) == 10 * TroopTypes[code].attack + TroopTypes[code].hp
def_unit_power10(code) == 10 * TroopTypes[code].defense + TroopTypes[code].hp

(***************************************************************************)
(* Resource curve engine.                                                  *)
(***************************************************************************)
\* levels.get(type, 1) over the Building rows of one city
LevelOf(levels, type) == IF type \in DOMAIN levels THEN levels[type] ELSE 1

curve(base, linear, quad, lvl) ==
  LET x == Max2(0, lvl - 1) IN base + linear * x + quad * (x * x)

recalc_rates_for_city(db, city_id) ==
  LET levels == db.buildings[city_id] IN
  [ food  |-> Max2(0, curve(30, 8, 2, LevelOf(levels, "farm"))),
    wood  |-> Max2(0, curve(30, 8, 2, LevelOf(levels, "sawmill"))),
    stone |-> Max2(0, curve(20, 3, 1, LevelOf(levels, "quarry"))),
    iron  |-> Max2(0, curve(10, 2, 1, LevelOf(levels, "ironmine"))) ]

\* variant of ProtectedPct without the clamp
ProtectedPct_unclamped(wh_lvl) == 25 + (wh_lvl - 1) * 2

\* ratio = min(0.40, max(0.25, 0.25 + (wh_lvl - 1) * 0.02)), in percent
ProtectedPct(wh_lvl) == Min2(40, Max2(25, 25 + (wh_lvl - 1) * 2))

\* int(max * ratio) in binary floating point: 6600 * 0.29 evaluates just below
\* 1914 and truncates to 1913; every other cap of levels 0..12 is exact.
ProtectedOf(max, wh_lvl) ==
  IF max = 6600 /\ wh_lvl = 3 THEN 1913 ELSE (max * ProtectedPct(wh_lvl)) \div 100

StorageMax(wh_lvl) ==
  [ food  |-> 5000 + wh_lvl * 2000,
    wood  |-> 5000 + wh_lvl * 2000,
    stone |-> 3000 + wh_lvl * 1200,
    iron  |-> 2000 + wh_lvl * 800 ]

recalc_storage_for_city(db, city_id) ==
  LET wh_lvl == LevelOf(db.buildings[city_id], "warehouse")
      mx == StorageMax(wh_lvl)
  IN [ max |-> mx, protected |-> [k \in Res |-> ProtectedOf(mx[k], wh_lvl)] ]

\* the eight assignments c.max_* = s[...], c.protected_* = s[...]
RefreshStorage(db, city_id) ==
  LET s == recalc_storage_for_city(db, city_id) IN
  [db EXCEPT !.cities[city_id].max = s.max, !.cities[city_id].protected = s.protected]

(***************************************************************************)
(* City production advancer.                                               *)
(***************************************************************************)
\* minutes = int((now - last).total_seconds() // 60), last = city.last_tick_at or now
ElapsedMinutes(city, now) ==
  LET last == IF city.last_tick_at = None THEN now ELSE city.last_tick_at
  IN (now - last) \div SECONDS_PER_MINUTE

\* variant of apply_city_tick that advances last_tick_at by one minute only
apply_city_tick_one_minute(db, city_id, now) ==
  LET city == db.cities[city_id]
      last == IF city.last_tick_at = None THEN now ELSE city.last_tick_at
      minutes == ElapsedMinutes(city, now)
  IN IF minutes <= 0 THEN [db |-> db, minutes |-> 0]
     ELSE [db |-> [db EXCEPT !.cities[city_id].stock =
                              [k \in Res |-> Min2(city.stock[k] + city.rate[k] * minutes, city.max[k])],
                            !.cities[city_id].last_tick_at = last + SECONDS_PER_MINUTE],
           minutes |-> minutes]
\* variant of apply_city_tick that moves last_tick_at to now
apply_city_tick_to_now(db, city_id, now) ==
  LET city == db.cities[city_id]
      minutes == ElapsedMinutes(city, now)
  IN IF minutes <= 0 THEN [db |-> db, minutes |-> 0]
     ELSE LET rates == recalc_rates_for_city(db, city_id)
              s == recalc_storage_for_city(db, city_id)
              grown == [k \in Res |-> city.stock[k] + rates[k] * minutes]
              c2 == [city EXCEPT !.rate = rates, !.max = s.max, !.protected = s.protected,
                                 !.stock = [k \in Res |-> Min2(grown[k], s.max[k])],
                                 !.last_tick_at = now]
          IN [db |-> [db EXCEPT !.cities[city_id] = c2], minutes |-> minutes]
\* variant of apply_city_tick that does not cap the grown stocks
apply_city_tick_uncapped(db, city_id, now) ==
  LET city == db.cities[city_id]
      last == IF city.last_tick_at = None THEN now ELSE city.last_tick_at
      minutes == ElapsedMinutes(city, now)
  IN IF minutes <= 0 THEN [db |-> db, minutes |-> 0]
     ELSE LET rates == recalc_rates_for_city(db, city_id)
              s == recalc_storage_for_city(db, city_id)
              grown == [k \in Res |-> city.stock[k] + rates[k] * minutes]
              c2 == [city EXCEPT !.rate = rates, !.max = s.max, !.protected = s.protected,
                                 !.stock = grown,
                                 !.last_tick_at = last + minutes * SECONDS_PER_MINUTE]
          IN [db |-> [db EXCEPT !.cities[city_id] = c2], minutes |-> minutes]
apply_city_tick(db, city_id, now) ==
  LET city == db.cities[city_id]
      last == IF city.last_tick_at = None THEN now ELSE city.last_tick_at
      minutes == ElapsedMinutes(city, now)
  IN IF minutes <= 0 THEN [db |-> db, minutes |-> 0]
     ELSE LET rates == recalc_rates_for_city(db, city_id)
              s == recalc_storage_for_city(db, city_id)
              grown == [k \in Res |-> city.stock[k] + rates[k] * minutes]
              c2 == [city EXCEPT !.rate = rates, !.max = s.max, !.protected = s.protected,
                                 !.stock = [k \in Res |-> Min2(grown[k], s.max[k])],
                                 !.last_tick_at = last + minutes * SECONDS_PER_MINUTE]
          IN [db |-> [db EXCEPT !.cities[city_id] = c2], minutes |-> minutes]

(***************************************************************************)
(* Raid economics.                                                         *)
(***************************************************************************)
lootable(city) == [k \in Res |-> Max2(0, city.stock[k] - city.protected[k])]

SumRes(f) == f["food"] + f["wood"] + f["stone"] + f["iron"]

\* Python compares the key strings: "wood" > "stone" > "iron" > "food".
KeyRank(k) == CASE k = "food" -> 1 [] k = "iron" -> 2 [] k = "stone" -> 3 [] k = "wood" -> 4

\* remainders.sort(reverse=True) over the tuples (exact - base, k); the
\* remainders share the denominator `total`, so their numerators are compared.
RemainderOrder(num) ==
  LET Before(j, k) == num[j] > num[k] \/ (num[j] = num[k] /\ KeyRank(j) > KeyRank(k))
      Pos(k) == Cardinality({j \in Res : Before(j, k)}) + 1
  IN [i \in 1..4 |-> CHOOSE k \in Res : Pos(k) = i]

\* one run of `for _, k in remainders:` from position i on
RECURSIVE TakeRound(_, _, _, _, _, _)
TakeRound(loot, order, i, taken, left, progressed) ==
  IF i > 4 \/ left <= 0 THEN [taken |-> taken, left |-> left, progressed |-> progressed]
  ELSE LET k == order[i] IN
       IF taken[k] < loot[k]
       THEN TakeRound(loot, order, i + 1, [taken EXCEPT ![k] = @ + 1], left - 1, TRUE)
       ELSE TakeRound(loot, order, i + 1, taken, left, progressed)

\* base = min(int(exact), loot[k]) with exact = (loot[k] / total) * take_total
TakeBase(loot, take_total, total) ==
  [k \in Res |-> Min2((loot[k] * take_total) \div total, loot[k])]

\* numerators of the remainders exact - base over the denominator `total`
RemainderNum(loot, take_total, total, base) ==
  [k \in Res |-> loot[k] * take_total - base[k] * total]

\* variant of TakeLoop that hands out nothing of what is left
TakeLoopNone(loot, order, taken, left) == taken

\* while left > 0: ... if not progressed: break
RECURSIVE TakeLoop(_, _, _, _)
TakeLoop(loot, order, taken, left) ==
  IF left <= 0 THEN taken
  ELSE LET r == TakeRound(loot, order, 1, taken, left, FALSE) IN
       IF ~r.progressed THEN r.taken ELSE TakeLoop(loot, order, r.taken, r.left)

\* The double `exact` is the rational quotient up to rounding noise: where the
\* quotient is integral the double may fall just short, so int(exact) is the
\* floor or one below it ((1782 / 3497) * 3497 = 1781.9999999999998).
TakeBases(loot, take_total, total) ==
  LET fl == TakeBase(loot, take_total, total)
      short == {k \in Res : (loot[k] * take_total) % total = 0 /\ fl[k] >= 1}
  IN {[k \in Res |-> IF k \in S THEN fl[k] - 1 ELSE fl[k]] : S \in SUBSET short}

\* variant of RemainderOrders that sorts the remainders in ascending order
RemainderOrders_ascending(num) ==
  {o \in [1..4 -> Res] :
     /\ \A i, j \in 1..4 : i # j => o[i] # o[j]
     /\ \A i \in 1..3 : num[o[i]] <= num[o[i + 1]]}

\* the orders remainders.sort(reverse=True) can produce: descending in the
\* rational remainder; among equal rational remainders the noise of the
\* doubles decides before the key strings do
RemainderOrders(num) ==
  {o \in [1..4 -> Res] :
     /\ \A i, j \in 1..4 : i # j => o[i] # o[j]
     /\ \A i \in 1..3 : num[o[i]] >= num[o[i + 1]]}

TakeFrom(loot, take_total, total, base) ==
  {TakeLoop(loot, o, base, take_total - SumRes(base)) :
     o \in RemainderOrders(RemainderNum(loot, take_total, total, base))}

\* every result _proportional_take can return for these arguments
TakeOutcomes(loot, capacity) ==
  IF SumRes(loot) <= 0 \/ capacity <= 0 THEN {ZeroRes}
  ELSE UNION {TakeFrom(loot, Min2(capacity, SumRes(loot)), SumRes(loot), b) :
                b \in TakeBases(loot, Min2(capacity, SumRes(loot)), SumRes(loot))}

\* the result with exact quotients and ties decided by the key strings
proportional_take(loot, capacity) ==
  LET total == SumRes(loot) IN
  IF total <= 0 \/ capacity <= 0 THEN ZeroRes
  ELSE LET take_total == Min2(capacity, total)
           base == TakeBase(loot, take_total, total)
       IN TakeLoop(loot, RemainderOrder(RemainderNum(loot, take_total, total, base)),
                   base, take_total - SumRes(base))

(***************************************************************************)
(* Combat at arrival.                                                      *)
(***************************************************************************)
\* round() of the non-negative quotient p / q, ties to the even neighbour
RoundHalfEven(p, q) ==
  LET fl == p \div q
      r2 == 2 * (p % q)
  IN IF r2 > q THEN fl + 1
     ELSE IF r2 < q THEN fl
     ELSE IF fl % 2 = 0 THEN fl ELSE fl + 1

\* variant of attacker_loss_rate with the attacker's share of the power as the ratio
attacker_loss_rate_own_share(A, D) ==
  IF 80 * A < 5 * (A + D) THEN <<1, 20>>
  ELSE IF 20 * A > 15 * (A + D) THEN <<3, 5>>
  ELSE <<4 * A, 5 * (A + D)>>

\* min(0.60, max(0.05, ratio * 0.80)) with ratio = D / (A + D), as <<num, den>>
attacker_loss_rate(A, D) ==
  IF 80 * D < 5 * (A + D) THEN <<1, 20>>
  ELSE IF 20 * D > 15 * (A + D) THEN <<3, 5>>
  ELSE <<4 * D, 5 * (A + D)>>

\* min(0.75, max(0.10, (1.0 - ratio) * 1.00)), as <<num, den>>
defender_loss_rate(A, D) ==
  IF 10 * A < A + D THEN <<1, 10>>
  ELSE IF 4 * A > 3 * (A + D) THEN <<3, 4>>
  ELSE <<A, A + D>>

\* int(round(n * rate)) clamped to 0..n
LossOf(n, rate) == Max2(0, Min2(n, RoundHalfEven(n * rate[1], rate[2])))

RECURSIVE SumOver(_, _)
SumOver(S, f) ==
  IF S = {} THEN 0 ELSE LET x == CHOOSE y \in S : TRUE IN f[x] + SumOver(S \ {x}, f)

\* atk_power += sent * (attack + 0.10*hp) over the raid's lines, times ten
AtkPower(atk_lines) ==
  SumOver(DOMAIN atk_lines,
          [c \in DOMAIN atk_lines |-> Max2(0, atk_lines[c].count_sent) * atk_unit_power10(c)])

\* def_power += dcnt * (defense + 0.10*hp) over the target's garrison rows, times ten
DefPower(def_rows) ==
  SumOver(DOMAIN def_rows, [c \in DOMAIN def_rows |-> Max2(0, def_rows[c]) * def_unit_power10(c)])

\* the combat itself, once the two early returns have been passed
ResolveCombat(db, rid) ==
  LET raid == db.raids[rid]
      atk_lines == db.raid_troops[rid]
      def_rows == IF raid.target_city_id \in DOMAIN db.city_troops
                  THEN db.city_troops[raid.target_city_id] ELSE << >>
      atk_power == AtkPower(atk_lines)
      def_power == DefPower(def_rows)
      snap0 == [c \in DOMAIN def_rows |-> [count_start |-> Max2(0, def_rows[c]), count_lost |-> 0]]
      no_loss == [c \in DOMAIN atk_lines |-> [atk_lines[c] EXCEPT !.count_lost = 0]]
      alr == attacker_loss_rate(atk_power, def_power)
      dlr == defender_loss_rate(atk_power, def_power)
      def_lost == [c \in DOMAIN def_rows |->
                     IF Max2(0, def_rows[c]) <= 0 THEN 0 ELSE LossOf(Max2(0, def_rows[c]), dlr)]
  IN IF def_power <= 0
       THEN [db EXCEPT !.raid_defender_troops[rid] = snap0, !.raid_troops[rid] = no_loss]
     ELSE IF atk_power <= 0
       THEN [db EXCEPT !.raid_defender_troops[rid] = snap0]
     ELSE [db EXCEPT
             !.raid_troops[rid] =
                [c \in DOMAIN atk_lines |->
                   [atk_lines[c] EXCEPT !.count_lost =
                      IF Max2(0, atk_lines[c].count_sent) <= 0 THEN 0
                      ELSE LossOf(Max2(0, atk_lines[c].count_sent), alr)]],
             !.city_troops[raid.target_city_id] =
                [c \in DOMAIN def_rows |->
                   IF Max2(0, def_rows[c]) <= 0 THEN def_rows[c]
                   ELSE Max2(0, def_rows[c] - def_lost[c])],
             !.raid_defender_troops[rid] =
                [c \in DOMAIN def_rows |-> [snap0[c] EXCEPT !.count_lost = def_lost[c]]]]

\* The session of a request.  SessionLocal is made with autoflush=False, so a query
\* filters on the rows as of the session's last flush (fl) and hands out the loaded
\* objects, which carry the pending changes (db).  fl matters through the columns
\* the WHERE clauses name: the status and the times of a raid, the upgrade rows and
\* the snapshot rows.
SessionOf(db) == [db |-> db, fl |-> db]

\* variant of apply_casualties_at_arrival without the `already` guard
apply_casualties_unguarded(db, rid) ==
  IF DOMAIN db.raid_troops[rid] = {} THEN db ELSE ResolveCombat(db, rid)

\* `if not atk_lines: return`, then `if already: return`
apply_casualties_at_arrival(db, rid) ==
  IF DOMAIN db.raid_troops[rid] = {} THEN db
  ELSE IF DOMAIN db.raid_defender_troops[rid] # {} THEN db
  ELSE ResolveCombat(db, rid)

\* the rows after `db.flush()` of _apply_casualties_at_arrival, called on the store db
\* of a session flushed at fl: the snapshot rows exist, the losses are still to come
CombatFlushed(db, fl, rid) ==
  IF DOMAIN db.raid_troops[rid] = {} THEN fl
  ELSE IF DOMAIN db.raid_defender_troops[rid] # {} THEN fl
  ELSE LET t == db.raids[rid].target_city_id
           def_rows == IF t \in DOMAIN db.city_troops THEN db.city_troops[t] ELSE << >>
       IN [db EXCEPT !.raid_defender_troops[rid] =
             [c \in DOMAIN def_rows |-> [count_start |-> Max2(0, def_rows[c]), count_lost |-> 0]]]

(***************************************************************************)
(* Troop return.                                                           *)
(***************************************************************************)
\* variant of ConsumeReturn that zeroes the line once the troops are home
ConsumeReturn_spent(rt) == [rt EXCEPT !.count_sent = 0]

\* rt.count_sent = max(int(rt.count_sent), int(rt.count_lost))
ConsumeReturn(rt) == [rt EXCEPT !.count_sent = Max2(rt.count_sent, rt.count_lost)]

\* variant of return_troops_from_raid that brings back every troop that was sent
return_troops_from_raid_all_sent(db, rid) ==
  LET raid == db.raids[rid]
      lines == db.raid_troops[rid]
      cid == raid.attacker_city_id
      rows == IF cid \in DOMAIN db.city_troops THEN db.city_troops[cid] ELSE << >>
      rows2 == [c \in DOMAIN rows \cup DOMAIN lines |->
                  (IF c \in DOMAIN rows THEN rows[c] ELSE 0)
                  + (IF c \in DOMAIN lines THEN Max2(0, lines[c].count_sent) ELSE 0)]
  IN IF DOMAIN lines = {} THEN db
     ELSE [db EXCEPT !.city_troops = [x \in DOMAIN db.city_troops \cup {cid} |->
                                        IF x = cid THEN rows2 ELSE db.city_troops[x]]]
return_troops_from_raid(db, rid) ==
  LET raid == db.raids[rid]
      lines == db.raid_troops[rid]
      cid == raid.attacker_city_id
      rows == IF cid \in DOMAIN db.city_troops THEN db.city_troops[cid] ELSE << >>
      returning == [c \in DOMAIN lines |->
                      Max2(0, Max2(0, lines[c].count_sent) - Max2(0, lines[c].count_lost))]
      back == {c \in DOMAIN lines : returning[c] > 0}
      rows2 == [c \in DOMAIN rows \cup back |->
                  (IF c \in DOMAIN rows THEN rows[c] ELSE 0)
                  + (IF c \in back THEN returning[c] ELSE 0)]
  IN IF DOMAIN lines = {} THEN db
     ELSE [db EXCEPT !.city_troops = [x \in DOMAIN db.city_troops \cup {cid} |->
                                        IF x = cid THEN rows2 ELSE db.city_troops[x]],
                     !.raid_troops[rid] = [c \in DOMAIN lines |-> ConsumeReturn(lines[c])]]

(***************************************************************************)
(* Raid state machine resolver: arrival pass.                              *)
(***************************************************************************)
CityExists(db, city_id) == city_id \in DOMAIN db.cities

\* variant of ArrivalTiming that anchors returns_at without repairing the seconds
ArrivalTiming_unrepaired(r, event_time) ==
  [r EXCEPT !.returns_at = (IF r.arrives_at # None THEN r.arrives_at ELSE event_time)
                              + r.return_seconds]

\* timing patch of stage 1: repair outbound_seconds / return_seconds, re-anchor returns_at
ArrivalTiming(r, event_time) ==
  LET ob == IF r.outbound_seconds <= 0
            THEN (IF r.created_at # None /\ r.arrives_at # None
                  THEN Max2(1, r.arrives_at - r.created_at) ELSE 1)
            ELSE r.outbound_seconds
      rs == IF r.return_seconds <= 0 THEN Max2(1, ob) ELSE r.return_seconds
      base == IF r.arrives_at # None THEN r.arrives_at ELSE event_time
  IN [r EXCEPT !.outbound_seconds = ob, !.return_seconds = rs, !.returns_at = base + rs]

\* loot of one raid: refresh both cities, take from the target, store on the raid
\* variant of TakeFromTarget that hands the loot to the attacker on the spot
TakeFromTargetCredit(db, rid, taken) ==
  LET target == db.cities[db.raids[rid].target_city_id]
      attacker == db.cities[db.raids[rid].attacker_city_id]
  IN [db EXCEPT !.cities[db.raids[rid].target_city_id].stock =
                   [k \in Res |-> Max2(target.stock[k] - taken[k], target.protected[k])],
                !.cities[db.raids[rid].attacker_city_id].stock =
                   [k \in Res |-> attacker.stock[k] + taken[k]],
                !.raids[rid].stolen = taken]
TakeFromTarget(db, rid, taken) ==
  LET target == db.cities[db.raids[rid].target_city_id] IN
  [db EXCEPT !.cities[db.raids[rid].target_city_id].stock =
                [k \in Res |-> Max2(target.stock[k] - taken[k], target.protected[k])],
             !.raids[rid].stolen = taken]

\* variant of the steal that loots the whole stock and keeps no floor
StealRefreshedWhole(db, rid) ==
  LET target == db.cities[db.raids[rid].target_city_id]
      taken == proportional_take(target.stock, db.raids[rid].carry_capacity)
  IN [db EXCEPT !.cities[db.raids[rid].target_city_id].stock =
                   [k \in Res |-> target.stock[k] - taken[k]],
                !.raids[rid].stolen = taken]
StealRefreshed(db, rid) ==
  TakeFromTarget(db, rid, proportional_take(lootable(db.cities[db.raids[rid].target_city_id]),
                                            db.raids[rid].carry_capacity))

StealFromTarget(db, rid) ==
  StealRefreshed(RefreshStorage(RefreshStorage(db, db.raids[rid].attacker_city_id),
                                db.raids[rid].target_city_id), rid)

\* the combat call of the arrival pass
ArrivalCombat(db, rid) == apply_casualties_at_arrival(db, rid)

\* body of `for r in due:` in _resolve_arrivals_to_returning_at
\* flip to returning after steal and combat
\* variant of ArriveFlip that closes the raid at arrival
ArriveFlipResolved(db, rid, event_time) ==
  [db EXCEPT !.raids[rid] = [ArrivalTiming(db.raids[rid], event_time)
                               EXCEPT !.status = "resolved", !.resolved_at = event_time]]
ArriveFlip(db, rid, event_time) ==
  [db EXCEPT !.raids[rid] = [ArrivalTiming(db.raids[rid], event_time)
                               EXCEPT !.status = "returning", !.resolved_at = None]]

ArriveOne(db, rid, event_time) ==
  IF \/ ~CityExists(db, db.raids[rid].attacker_city_id)
     \/ ~CityExists(db, db.raids[rid].target_city_id)
  THEN [db EXCEPT !.raids[rid].status = "resolved", !.raids[rid].resolved_at = event_time]
  ELSE ArriveFlip(ArrivalCombat(StealFromTarget(db, rid), rid), rid, event_time)

ArrivalDue(db, event_time) ==
  {rid \in 1..Len(db.raids) :
     db.raids[rid].status = "enroute" /\ db.raids[rid].arrives_at <= event_time}

\* the rows as of the last flush once the loop body has run for rid: the flush inside
\* the combat comes after the steal and before the losses, the timing and the status
ArriveFlushed(db, fl, rid) ==
  IF \/ ~CityExists(db, db.raids[rid].attacker_city_id)
     \/ ~CityExists(db, db.raids[rid].target_city_id)
  THEN fl
  ELSE CombatFlushed(StealFromTarget(db, rid), fl, rid)

\* rows are visited in id order
RECURSIVE FoldArrivals(_, _, _, _)
FoldArrivals(s, due, rid, event_time) ==
  IF rid > Len(s.db.raids) THEN s
  ELSE FoldArrivals(IF rid \in due
                    THEN [db |-> ArriveOne(s.db, rid, event_time),
                          fl |-> ArriveFlushed(s.db, s.fl, rid)]
                    ELSE s,
                    due, rid + 1, event_time)

\* s is the session; the due query filters on the flushed rows
resolve_arrivals_to_returning_at(s, event_time) ==
  LET due == ArrivalDue(s.fl, event_time)
      out == FoldArrivals(s, due, 1, event_time)
  IN [db |-> out.db, fl |-> out.fl, count |-> Cardinality(due)]

(***************************************************************************)
(* Raid state machine resolver: return pass.                               *)
(***************************************************************************)
send_mail(db, user_id, kind, raid_id) ==
  [db EXCEPT !.mail = Append(@, [user_id |-> user_id, kind |-> kind, raid_id |-> raid_id])]

\* variant of send_raid_result_mail that writes to the attacker's owner only
send_raid_result_mail_attacker(db, rid) ==
  LET r == db.raids[rid] IN
  IF ~CityExists(db, r.attacker_city_id) \/ ~CityExists(db, r.target_city_id) THEN db
  ELSE send_mail(db, db.cities[r.attacker_city_id].owner_id, "raid_report", rid)
send_raid_result_mail(db, rid) ==
  LET r == db.raids[rid] IN
  IF ~CityExists(db, r.attacker_city_id) \/ ~CityExists(db, r.target_city_id) THEN db
  ELSE send_mail(send_mail(db, db.cities[r.attacker_city_id].owner_id, "raid_report", rid),
                 db.cities[r.target_city_id].owner_id, "raid_report", rid)

\* credit of the stored loot, capped by max storage
CreditLoot(db, rid) ==
  LET r == db.raids[rid]
      d1 == RefreshStorage(db, r.attacker_city_id)
      a == d1.cities[r.attacker_city_id]
  IN [d1 EXCEPT !.cities[r.attacker_city_id].stock =
                   [k \in Res |-> Min2(a.max[k], a.stock[k] + Max2(0, r.stolen[k]))]]

\* body of `for r in due:` in _resolve_returns_to_resolved_at, up to the mail
ReturnCredited(db, rid, event_time) ==
  LET d1 == [db EXCEPT !.raids[rid].status = "resolved", !.raids[rid].resolved_at = event_time]
      d2 == return_troops_from_raid(d1, rid)
  IN IF CityExists(d2, d2.raids[rid].attacker_city_id) THEN CreditLoot(d2, rid) ELSE d2

\* body of `for r in due:` in _resolve_returns_to_resolved_at
ReturnOne(db, rid, event_time) ==
  send_raid_result_mail(ReturnCredited(db, rid, event_time), rid)

\* variant of the due query without the status filter
ReturnDueAnyStatus(db, event_time) ==
  {rid \in 1..Len(db.raids) :
     /\ db.raids[rid].returns_at # None
     /\ db.raids[rid].returns_at <= event_time}
ReturnDue(db, event_time) ==
  {rid \in 1..Len(db.raids) :
     /\ db.raids[rid].status = "returning"
     /\ db.raids[rid].returns_at # None
     /\ db.raids[rid].returns_at <= event_time}

\* the rows as of the last flush once the loop body has run for rid: send_mail
\* flushes after each row it adds, so a raid that is reported is flushed whole;
\* without a report the only flush is the one after a new CityTroop row, which
\* comes after the status is set
ReturnFlushed(db, fl, rid, event_time) ==
  LET r == db.raids[rid]
      rows == IF r.attacker_city_id \in DOMAIN db.city_troops
              THEN db.city_troops[r.attacker_city_id] ELSE << >>
      lines == db.raid_troops[rid]
      new_row == \E c \in DOMAIN lines :
                    /\ Max2(0, lines[c].count_sent) - Max2(0, lines[c].count_lost) > 0
                    /\ c \notin DOMAIN rows
  IN IF CityExists(db, r.attacker_city_id) /\ CityExists(db, r.target_city_id)
     THEN ReturnOne(db, rid, event_time)
     ELSE IF new_row
     THEN [db EXCEPT !.raids[rid].status = "resolved", !.raids[rid].resolved_at = event_time]
     ELSE fl

\* `for r in due:`, rows in id order
RECURSIVE FoldReturns(_, _, _, _)
FoldReturns(s, due, rid, event_time) ==
  IF rid > Len(s.db.raids) THEN s
  ELSE FoldReturns(IF rid \in due
                   THEN [db |-> ReturnOne(s.db, rid, event_time),
                         fl |-> ReturnFlushed(s.db, s.fl, rid, event_time)]
                   ELSE s,
                   due, rid + 1, event_time)

\* s is the session; the due query filters on the flushed rows
resolve_returns_to_resolved_at(s, event_time) ==
  LET due == ReturnDue(s.fl, event_time)
      out == FoldReturns(s, due, 1, event_time)
  IN [db |-> out.db, fl |-> out.fl, count |-> Cardinality(due)]

(***************************************************************************)
(* Upgrade completion resolver.                                            *)
(***************************************************************************)
UpgradeDue(db, event_time) ==
  {i \in 1..Len(db.upgrades) : db.upgrades[i].completes_at <= event_time}

\* b.level = up.to_level for the due rows, in row order
RECURSIVE ApplyLevels(_, _, _, _)
ApplyLevels(buildings, ups, due, i) ==
  IF i > Len(ups) THEN buildings
  ELSE LET up == ups[i]
           hit == i \in due /\ up.city_id \in DOMAIN buildings
                  /\ up.building_type \in DOMAIN buildings[up.city_id]
       IN ApplyLevels(IF hit THEN [buildings EXCEPT ![up.city_id][up.building_type] = up.to_level]
                      ELSE buildings, ups, due, i + 1)

SelectSeqIdx(s, keep) ==
  LET F[i \in 0..Len(s)] ==
        IF i = 0 THEN << >> ELSE IF i \in keep THEN Append(F[i - 1], s[i]) ELSE F[i - 1]
  IN F[Len(s)]

\* variant of RefreshTouchedCity that leaves the stored rates and caps for the next
\* production minute
RefreshTouchedCity_deferred(db, city_id) == db

\* immediate effects of a completed upgrade on its city
RefreshTouchedCity(db, city_id) ==
  LET levels == db.buildings[city_id]
      rates == recalc_rates_for_city(db, city_id)
      s == recalc_storage_for_city(db, city_id)
      city == db.cities[city_id]
  IN [db EXCEPT !.cities[city_id] =
        [city EXCEPT !.townhall_level = IF "townhall" \in DOMAIN levels THEN levels["townhall"] ELSE @,
                     !.rate = rates, !.max = s.max, !.protected = s.protected,
                     !.stock = [k \in Res |-> Min2(city.stock[k], s.max[k])]]]

RECURSIVE FoldCities(_, _)
FoldCities(db, S) ==
  IF S = {} THEN db
  ELSE FoldCities(RefreshTouchedCity(db, MinOf(S)), S \ {MinOf(S)})

\* s is the session; the due query filters on the flushed rows, where a row that
\* db.delete(up) has marked stays until the next flush
complete_due_upgrades_at(s, event_time) ==
  LET db == s.db
      ups == s.fl.upgrades
      due == UpgradeDue(s.fl, event_time)
      touched == {ups[i].city_id : i \in
                    {j \in due : /\ ups[j].city_id \in DOMAIN db.buildings
                                 /\ ups[j].building_type \in DOMAIN db.buildings[ups[j].city_id]}}
      gone == {ups[j] : j \in due}
      d1 == [db EXCEPT !.buildings = ApplyLevels(db.buildings, ups, due, 1),
                       !.upgrades = SelectSeqIdx(db.upgrades,
                                       {i \in 1..Len(db.upgrades) : db.upgrades[i] \notin gone})]
  IN [db |-> FoldCities(d1, {c \in touched : CityExists(db, c)}),
      count |-> Cardinality(due)]

(***************************************************************************)
(* Event-time scheduler (tick driver).                                     *)
(***************************************************************************)

\* the rows the three `.order_by(...).first()` queries choose from: due in (after, hard_stop]
PendingTimes(db, after, hard_stop) ==
  {db.raids[i].arrives_at : i \in
     {j \in 1..Len(db.raids) : /\ db.raids[j].status = "enroute"
                               /\ db.raids[j].arrives_at > after
                               /\ db.raids[j].arrives_at <= hard_stop}}
  \cup {db.raids[i].returns_at : i \in
     {j \in 1..Len(db.raids) : /\ db.raids[j].status = "returning"
                               /\ db.raids[j].returns_at # None
                               /\ db.raids[j].returns_at > after
                               /\ db.raids[j].returns_at <= hard_stop}}
  \cup {db.upgrades[i].completes_at : i \in
     {j \in 1..Len(db.upgrades) : /\ db.upgrades[j].completes_at > after
                                  /\ db.upgrades[j].completes_at <= hard_stop}}

next_event_time(db, after, hard_stop) ==
  LET next_times == PendingTimes(db, after, hard_stop)
  IN IF next_times = {} THEN None ELSE MinOf(next_times)

\* start = the earliest last_tick_at below now, else now
TickStart(db, now) ==
  MinOf({now} \cup {db.cities[c].last_tick_at : c \in
                      {x \in DOMAIN db.cities : /\ db.cities[x].last_tick_at # None
                                                /\ db.cities[x].last_tick_at < now}})

\* `for c in cities: apply_city_tick(c, event_time, db)`: each call touches its own city
ProduceAll(db, event_time) ==
  LET one == [c \in DOMAIN db.cities |-> apply_city_tick(db, c, event_time)] IN
  [db |-> [db EXCEPT !.cities = [c \in DOMAIN db.cities |-> one[c].db.cities[c]]],
   minutes |-> SumOver(DOMAIN db.cities, [c \in DOMAIN db.cities |-> one[c].minutes]),
   ticked |-> {c \in DOMAIN db.cities : one[c].minutes > 0}]

TickAcc(db, start) ==
  [db |-> db, fl |-> db, current_time |-> start, total_minutes |-> 0, ticked_city_ids |-> {},
   upgrades_completed |-> 0, raids_arrived |-> 0, raids_returned |-> 0]

EventTime(db, current_time, now) ==
  LET nxt == next_event_time(db, current_time, now) IN IF nxt # None THEN nxt ELSE now

\* the four steps of one pass through the body of `while True:`, on the running totals
AccProduced(acc, event_time, p) ==
  [acc EXCEPT !.db = p.db, !.current_time = event_time,
              !.total_minutes = @ + p.minutes, !.ticked_city_ids = @ \cup p.ticked]

AccUpgraded(acc, u) == [acc EXCEPT !.db = u.db, !.upgrades_completed = @ + u.count]

AccArrived(acc, a) == [acc EXCEPT !.db = a.db, !.fl = a.fl, !.raids_arrived = @ + a.count]

AccReturned(acc, r) == [acc EXCEPT !.db = r.db, !.fl = r.fl, !.raids_returned = @ + r.count]

\* variant of StepProduce that completes the due upgrades before it credits the minutes
StepProduce_upgraded(acc, event_time) ==
  AccProduced(acc, event_time,
              ProduceAll(complete_due_upgrades_at([db |-> acc.db, fl |-> acc.fl], event_time).db,
                         event_time))
StepProduce(acc, event_time) == AccProduced(acc, event_time, ProduceAll(acc.db, event_time))

\* the session of the tick in progress
AccSession(acc) == [db |-> acc.db, fl |-> acc.fl]

StepUpgrades(acc, event_time) ==
  AccUpgraded(acc, complete_due_upgrades_at(AccSession(acc), event_time))

StepArrivals(acc, event_time) ==
  AccArrived(acc, resolve_arrivals_to_returning_at(AccSession(acc), event_time))

StepReturns(acc, event_time) ==
  AccReturned(acc, resolve_returns_to_resolved_at(AccSession(acc), event_time))

TickAt(acc, event_time) ==
  StepReturns(StepArrivals(StepUpgrades(StepProduce(acc, event_time), event_time),
                           event_time), event_time)

\* one pass through the body of `while True:`
TickIteration(acc, now) == TickAt(acc, EventTime(acc.fl, acc.current_time, now))

RECURSIVE TickLoop(_, _)
\* `if current_time >= now: break`
TickContinue(n, now) == IF n.current_time >= now THEN n ELSE TickLoop(n, now)

TickLoop(acc, now) == TickContinue(TickIteration(acc, now), now)

TickSummary(acc, now) ==
  [cities_total |-> Cardinality(DOMAIN acc.db.cities),
   cities_ticked |-> Cardinality(acc.ticked_city_ids),
   minutes_applied_total |-> acc.total_minutes,
   upgrades_completed |-> acc.upgrades_completed,
   raids_arrived |-> acc.raids_arrived,
   raids_returned |-> acc.raids_returned,
   at |-> now]

TickResult(acc, now) == [db |-> acc.db, summary |-> TickSummary(acc, now)]

tick_all_cities(db, now) == TickResult(TickLoop(TickAcc(db, TickStart(db, now)), now), now)

(***************************************************************************)
(* Tick-on-read gate.                                                      *)
(***************************************************************************)
TICK_THROTTLE_SECONDS == 1

Throttled(last, now) == last # None /\ now - last < TICK_THROTTLE_SECONDS

tick_world_now(db, on_read, last, now) ==
  IF ~on_read \/ Throttled(last, now)
  THEN [db |-> db, last |-> last, ran |-> FALSE]
  ELSE [db |-> tick_all_cities(db, now).db, last |-> now, ran |-> TRUE]

(***************************************************************************)
(* Building catalogue (cost and time curves, prerequisites).               *)
(***************************************************************************)
AGE1_MAX_LEVEL == 10

BuildingTypes ==
  {"townhall", "farm", "sawmill", "quarry", "ironmine", "warehouse", "academy", "barracks"}

BASE_COST ==
  [townhall |-> 180, farm |-> 55, sawmill |-> 60, quarry |-> 75, ironmine |-> 95,
   warehouse |-> 85, barracks |-> 95, academy |-> 120]

\* COST_WEIGHTS in hundredths
COST_WEIGHTS ==
  [townhall  |-> [food |-> 100, wood |-> 135, stone |-> 100, iron |-> 55],
   farm      |-> [food |-> 90,  wood |-> 110, stone |-> 35,  iron |-> 15],
   sawmill   |-> [food |-> 75,  wood |-> 125, stone |-> 35,  iron |-> 15],
   quarry    |-> [food |-> 95,  wood |-> 115, stone |-> 80,  iron |-> 25],
   ironmine  |-> [food |-> 100, wood |-> 120, stone |-> 90,  iron |-> 40],
   warehouse |-> [food |-> 90,  wood |-> 110, stone |-> 75,  iron |-> 35],
   barracks  |-> [food |-> 90,  wood |-> 120, stone |-> 85,  iron |-> 45],
   academy   |-> [food |-> 110, wood |-> 130, stone |-> 100, iron |-> 60]]

BASE_TIME_SECONDS ==
  [townhall |-> 60, farm |-> 18, sawmill |-> 18, quarry |-> 20, ironmine |-> 22,
   warehouse |-> 22, barracks |-> 24, academy |-> 28]

\* TIME_FACTOR in hundredths
TIME_FACTOR ==
  [townhall |-> 75, farm |-> 50, sawmill |-> 50, quarry |-> 55, ironmine |-> 60,
   warehouse |-> 60, barracks |-> 65, academy |-> 70]

\* RULES: prerequisite keep level and cap_by_keep
RULES ==
  [townhall  |-> [keep |-> 0, cap_by_keep |-> FALSE],
   farm      |-> [keep |-> 1, cap_by_keep |-> TRUE],
   sawmill   |-> [keep |-> 1, cap_by_keep |-> TRUE],
   quarry    |-> [keep |-> 2, cap_by_keep |-> TRUE],
   ironmine  |-> [keep |-> 3, cap_by_keep |-> TRUE],
   warehouse |-> [keep |-> 2, cap_by_keep |-> TRUE],
   academy   |-> [keep |-> 3, cap_by_keep |-> TRUE],
   barracks  |-> [keep |-> 2, cap_by_keep |-> TRUE]]

clamp_age1_level(to_level) == Min2(Max2(1, to_level), AGE1_MAX_LEVEL)

\* max(10, int(base + lvl * lvl * factor * base))
upgrade_time_seconds(building_type, to_level) ==
  LET lvl == clamp_age1_level(to_level)
      base == BASE_TIME_SECONDS[building_type]
  IN Max2(10, base + (lvl * lvl * TIME_FACTOR[building_type] * base) \div 100)

\* q(scalar * weight * 0.10) with q(x) = int(round(x / 10.0) * 10)
upgrade_cost(building_type, to_level) ==
  LET lvl == clamp_age1_level(to_level)
      base == BASE_COST[building_type]
      scalar == base * (lvl * lvl) + base * 2 * lvl
  IN [k \in Res |-> RoundHalfEven(scalar * COST_WEIGHTS[building_type][k], 10000) * 10]

check_prereqs(building_type, to_level, levels) ==
  /\ building_type \in DOMAIN RULES
  /\ to_level <= AGE1_MAX_LEVEL
  /\ (RULES[building_type].keep > 0 =>
        (IF "townhall" \in DOMAIN levels THEN levels["townhall"] ELSE 0) >= RULES[building_type].keep)
  /\ (RULES[building_type].cap_by_keep => to_level <= LevelOf(levels, "townhall"))

(***************************************************************************)
(* Request handlers.  Each returns the store after the request; a rejected *)
(* request (HTTP 4xx) returns the store unchanged.                         *)
(***************************************************************************)
EmptyDb ==
  [cities |-> << >>, buildings |-> << >>, upgrades |-> << >>, raids |-> << >>,
   raid_troops |-> << >>, city_troops |-> << >>, raid_defender_troops |-> << >>,
   mail |-> << >>]

\* column defaults of the City model plus the values register() passes
NewCity(owner_id, now) ==
  [owner_id |-> owner_id, townhall_level |-> 1,
   stock |-> [k \in Res |-> 500],
   max |-> [food |-> 5000, wood |-> 5000, stone |-> 3000, iron |-> 2000],
   protected |-> [food |-> 1000, wood |-> 1000, stone |-> 600, iron |-> 400],
   rate |-> [food |-> 30, wood |-> 30, stone |-> 20, iron |-> 10],
   march_speed_pct |-> 0, return_speed_pct |-> 0,
   last_tick_at |-> now]

\* one user and one city per registration; ids are allocated in sequence
register(db, now) ==
  LET id == Cardinality(DOMAIN db.buildings) + 1 IN
  [db EXCEPT !.cities = [c \in DOMAIN db.cities \cup {id} |->
                           IF c = id THEN NewCity(id, now) ELSE db.cities[c]],
             !.buildings = Append(db.buildings, [t \in BuildingTypes |-> 1])]

OwnsOrAdmin(db, city_id, user, is_admin) ==
  CityExists(db, city_id) /\ (is_admin \/ db.cities[city_id].owner_id = user)

StartUpgradeOk(db, user, city_id, building_type, is_admin) ==
  /\ OwnsOrAdmin(db, city_id, user, is_admin)
  /\ \A i \in 1..Len(db.upgrades) : db.upgrades[i].city_id # city_id
  /\ city_id \in DOMAIN db.buildings
  /\ building_type \in DOMAIN db.buildings[city_id]
  /\ check_prereqs(building_type, db.buildings[city_id][building_type] + 1, db.buildings[city_id])
  /\ \A k \in Res : db.cities[city_id].stock[k]
                      >= upgrade_cost(building_type, db.buildings[city_id][building_type] + 1)[k]

start_upgrade(db, user, city_id, building_type, is_admin, now) ==
  IF ~StartUpgradeOk(db, user, city_id, building_type, is_admin) THEN db
  ELSE LET lvl == db.buildings[city_id][building_type]
           cost == upgrade_cost(building_type, lvl + 1)
       IN [db EXCEPT !.cities[city_id].stock = [k \in Res |-> @[k] - cost[k]],
                     !.upgrades = Append(@, [city_id |-> city_id, building_type |-> building_type,
                                             from_level |-> lvl, to_level |-> lvl + 1,
                                             started_at |-> now,
                                             completes_at |-> now + upgrade_time_seconds(building_type, lvl + 1)])]

\* row.count = max(0, cnt) for one troop code (upsert)
SetTroopRow(db, city_id, code, cnt) ==
  LET rows == IF city_id \in DOMAIN db.city_troops THEN db.city_troops[city_id] ELSE << >> IN
  [db EXCEPT !.city_troops = [x \in DOMAIN db.city_troops \cup {city_id} |->
       IF x = city_id THEN [c \in DOMAIN rows \cup {code} |-> IF c = code THEN cnt ELSE rows[c]]
       ELSE db.city_troops[x]]]

admin_set_city_troops(db, city_id, code, cnt, is_admin) ==
  IF ~is_admin \/ ~CityExists(db, city_id) \/ code \notin TroopCodes THEN db
  ELSE SetTroopRow(db, city_id, code, Max2(0, cnt))

(***************************************************************************)
(* Raid creation and recall.                                               *)
(***************************************************************************)
SECONDS_PER_TILE_DEFAULT == 5
BASE_TROOP_SPEED == 100

CeilDiv(p, q) == -((-p) \div q)

\* max(1, ceil(base_seconds * BASE_TROOP_SPEED / slowest_speed))
compute_seconds_from_troop_speed(base_seconds, slowest_speed) ==
  Max2(1, CeilDiv(base_seconds * BASE_TROOP_SPEED, Max2(1, slowest_speed)))

\* max(1, ceil(base_seconds * max(0.05, 1 - speed_pct / 100)))
apply_speed_pct(base_seconds, speed_pct) ==
  Max2(1, CeilDiv(base_seconds * Max2(5, 100 - Max2(0, speed_pct)), 100))

\* every city is registered at tile (0, 0): max(1, round(0 * seconds_per_tile))
compute_travel_seconds(distance_tiles, seconds_per_tile) ==
  Max2(1, distance_tiles * seconds_per_tile)

carry_capacity_from_barracks(db, city_id) ==
  LET lvl == IF city_id \in DOMAIN db.buildings
             THEN LevelOf(db.buildings[city_id], "barracks") ELSE 1
  IN 500 + (lvl - 1) * 200 + Max2(0, lvl - 1) * Max2(0, lvl - 1) * 50

keep_level(db, city_id) ==
  IF city_id \in DOMAIN db.buildings THEN LevelOf(db.buildings[city_id], "townhall") ELSE 1

max_simultaneous_raids(db, city_id) ==
  LET k == keep_level(db, city_id) IN
  IF k <= 2 THEN 1 ELSE IF k <= 4 THEN 2 ELSE IF k <= 6 THEN 3 ELSE 4

active_raids_count(db, attacker_city_id) ==
  Cardinality({i \in 1..Len(db.raids) :
                 /\ db.raids[i].attacker_city_id = attacker_city_id
                 /\ db.raids[i].status \in {"enroute", "returning"}})

Garrison(db, city_id, code) ==
  IF city_id \in DOMAIN db.city_troops /\ code \in DOMAIN db.city_troops[city_id]
  THEN db.city_troops[city_id][code] ELSE 0

\* troops: troop code -> count >= 1; travel_seconds: None when the request omits it
CreateRaidOk(db, user, attacker_city_id, target_city_id, troops, is_admin) ==
  /\ attacker_city_id # target_city_id
  /\ CityExists(db, attacker_city_id) /\ db.cities[attacker_city_id].owner_id = user
  /\ (active_raids_count(db, attacker_city_id) < max_simultaneous_raids(db, attacker_city_id)
        \/ is_admin)
  /\ CityExists(db, target_city_id) /\ db.cities[target_city_id].owner_id # user
  /\ DOMAIN troops # {} /\ DOMAIN troops \subseteq TroopCodes
  /\ \A c \in DOMAIN troops : Garrison(db, attacker_city_id, c) >= troops[c]

create_raid(db, user, attacker_city_id, target_city_id, troops, travel_seconds, is_admin, now) ==
  IF ~CreateRaidOk(db, user, attacker_city_id, target_city_id, troops, is_admin) THEN db
  ELSE LET attacker == db.cities[attacker_city_id]
           slowest_speed == MinOf({TroopTypes[c].speed : c \in DOMAIN troops})
           army_carry == SumOver(DOMAIN troops,
                           [c \in DOMAIN troops |-> troops[c] * TroopTypes[c].carry])
           base0 == IF travel_seconds = None
                    THEN compute_travel_seconds(0, SECONDS_PER_TILE_DEFAULT)
                    ELSE travel_seconds
           base_seconds == compute_seconds_from_troop_speed(base0, slowest_speed)
           outbound_seconds == apply_speed_pct(base_seconds, attacker.march_speed_pct)
           return_seconds == apply_speed_pct(base_seconds, attacker.return_speed_pct)
           arrives_at == now + outbound_seconds
           rows == db.city_troops[attacker_city_id]
           raid_row == [attacker_city_id |-> attacker_city_id,
                        target_city_id |-> target_city_id,
                        carry_capacity |-> Min2(carry_capacity_from_barracks(db, attacker_city_id),
                                                army_carry),
                        stolen |-> ZeroRes, created_at |-> now, status |-> "enroute",
                        outbound_seconds |-> outbound_seconds,
                        return_seconds |-> return_seconds,
                        arrives_at |-> arrives_at,
                        returns_at |-> arrives_at + return_seconds,
                        resolved_at |-> None]
       IN [db EXCEPT !.city_troops[attacker_city_id] =
                        [c \in DOMAIN rows |-> IF c \in DOMAIN troops THEN rows[c] - troops[c]
                                               ELSE rows[c]],
                     !.raids = Append(@, raid_row),
                     !.raid_troops = Append(@, [c \in DOMAIN troops |->
                                                  [count_sent |-> troops[c], count_lost |-> 0]]),
                     !.raid_defender_troops = Append(@, << >>)]

\* recall path for a raid whose arrives_at has passed: steal, no combat
AdvanceTiming(r1, now) ==
  LET rs0 == IF r1.return_seconds <= 0
             THEN (IF r1.outbound_seconds <= 0 /\ r1.created_at # None /\ r1.arrives_at # None
                   THEN r1.arrives_at - r1.created_at ELSE r1.outbound_seconds)
             ELSE r1.return_seconds
      rs == IF r1.return_seconds <= 0 THEN Max2(1, rs0) ELSE r1.return_seconds
  IN IF r1.returns_at = None
     THEN [r1 EXCEPT !.return_seconds = rs,
                     !.returns_at = (IF r1.arrives_at # None THEN r1.arrives_at ELSE now) + rs,
                     !.status = "returning", !.resolved_at = None]
     ELSE [r1 EXCEPT !.status = "returning", !.resolved_at = None]

AdvanceFlip(db, rid, now) == [db EXCEPT !.raids[rid] = AdvanceTiming(db.raids[rid], now)]

advance_to_returning_and_steal(db, rid, now) ==
  IF \/ ~CityExists(db, db.raids[rid].attacker_city_id)
     \/ ~CityExists(db, db.raids[rid].target_city_id)
  THEN [db EXCEPT !.raids[rid].status = "resolved", !.raids[rid].resolved_at = now]
  ELSE AdvanceFlip(StealFromTarget(db, rid), rid, now)

RECALL_RETURN_FACTOR_PCT == 50

\* variant of RecallOk without the checks of the raid's status
RecallOk_any_status(db, user, rid, is_admin) ==
  /\ rid \in 1..Len(db.raids)
  /\ (is_admin \/ (CityExists(db, db.raids[rid].attacker_city_id)
                   /\ db.cities[db.raids[rid].attacker_city_id].owner_id = user))
  /\ CityExists(db, db.raids[rid].attacker_city_id)
RecallOk(db, user, rid, is_admin) ==
  /\ rid \in 1..Len(db.raids)
  /\ (is_admin \/ (CityExists(db, db.raids[rid].attacker_city_id)
                   /\ db.cities[db.raids[rid].attacker_city_id].owner_id = user))
  /\ db.raids[rid].status # "resolved"
  /\ CityExists(db, db.raids[rid].attacker_city_id)
  /\ db.raids[rid].status \in {"enroute", "returning"}

\* the three branches of recall_raid, after the gate has run
RecallLateReturnsAt(r2, now) ==
  IF r2.returns_at = None
  THEN [r2 EXCEPT !.returns_at =
          (IF r2.arrives_at # None THEN r2.arrives_at ELSE now) + r2.return_seconds]
  ELSE r2

RecallLateTiming(r1, return_speed_pct, now) ==
  LET base == IF r1.outbound_seconds <= 0 /\ r1.created_at # None /\ r1.arrives_at # None
              THEN r1.arrives_at - r1.created_at ELSE r1.outbound_seconds
  IN RecallLateReturnsAt(
       IF r1.return_seconds <= 0
       THEN [r1 EXCEPT !.return_seconds = apply_speed_pct(Max2(1, base), return_speed_pct)]
       ELSE r1, now)

RecallLatePatch(db, rid, return_speed_pct, now) ==
  [db EXCEPT !.raids[rid] = RecallLateTiming(db.raids[rid], return_speed_pct, now)]

RecallLate(db, rid, return_speed_pct, now) ==
  RecallLatePatch(advance_to_returning_and_steal(db, rid, now), rid, return_speed_pct, now)

\* variant of RecallEarly that shortens the march and leaves the raid enroute
RecallEarly_enroute(db, rid, return_speed_pct, now) ==
  LET r == db.raids[rid]
      elapsed == IF r.created_at # None THEN Max2(1, now - r.created_at) ELSE 1
      rs == apply_speed_pct(elapsed, return_speed_pct)
  IN [db EXCEPT !.raids[rid] =
        [r EXCEPT !.outbound_seconds = elapsed, !.resolved_at = None,
                  !.return_seconds = rs, !.returns_at = now + rs, !.stolen = ZeroRes]]
RecallEarly(db, rid, return_speed_pct, now) ==
  LET r == db.raids[rid]
      elapsed == IF r.created_at # None THEN Max2(1, now - r.created_at) ELSE 1
      rs == apply_speed_pct(elapsed, return_speed_pct)
  IN [db EXCEPT !.raids[rid] =
        [r EXCEPT !.outbound_seconds = elapsed, !.status = "returning", !.resolved_at = None,
                  !.return_seconds = rs, !.returns_at = now + rs, !.stolen = ZeroRes]]

RecallReturning(db, rid, return_speed_pct, now) ==
  LET r == db.raids[rid]
      returns_at == IF r.returns_at = None THEN now + 1 ELSE r.returns_at
      remaining == Max2(1, returns_at - now)
      sped_up == Max2(1, CeilDiv(remaining * RECALL_RETURN_FACTOR_PCT, 100))
      final_remaining == apply_speed_pct(sped_up, return_speed_pct)
  IN [db EXCEPT !.raids[rid] =
        [r EXCEPT !.return_seconds = final_remaining, !.returns_at = now + final_remaining]]

recall_raid(db, user, rid, is_admin, now) ==
  IF ~RecallOk(db, user, rid, is_admin) THEN db
  ELSE LET r == db.raids[rid]
           pct == db.cities[r.attacker_city_id].return_speed_pct
       IN IF r.status = "enroute"
          THEN (IF r.arrives_at # None /\ now >= r.arrives_at
                THEN RecallLate(db, rid, pct, now) ELSE RecallEarly(db, rid, pct, now))
          ELSE RecallReturning(db, rid, pct, now)

(***************************************************************************)
(* Troop training.                                                         *)
(***************************************************************************)
\* per-unit costs by tier, times count
compute_training_cost(code, count) ==
  LET tier == TroopTypes[code].tier
      cnt == Max2(0, count)
  IN [food  |-> 1 * tier * cnt,
      wood  |-> 1 * tier * cnt,
      stone |-> (IF tier <= 1 THEN 0 ELSE tier - 1) * cnt,
      iron  |-> (IF tier <= 2 THEN 0 ELSE tier - 2) * cnt]

\* total over the requested lines
sum_cost(troops) ==
  [k \in Res |-> SumOver(DOMAIN troops,
                         [c \in DOMAIN troops |-> compute_training_cost(c, troops[c])[k]])]

\* afford["ok"]
check_affordable(city, cost) == \A k \in Res : city.stock[k] >= cost[k]

\* troops: troop code -> count, as aggregated in want_by_code
TrainOk(db, user, city_id, troops, is_admin) ==
  /\ OwnsOrAdmin(db, city_id, user, is_admin)
  /\ DOMAIN troops # {}
  /\ \A c \in DOMAIN troops : troops[c] > 0
  /\ DOMAIN troops \subseteq TroopCodes
  /\ check_affordable(db.cities[city_id], sum_cost(troops))

\* the request after the gate has run
train_troops(db, user, city_id, troops, is_admin) ==
  IF ~TrainOk(db, user, city_id, troops, is_admin) THEN db
  ELSE LET cost == sum_cost(troops)
           rows == IF city_id \in DOMAIN db.city_troops THEN db.city_troops[city_id] ELSE << >>
       IN [db EXCEPT !.cities[city_id].stock = [k \in Res |-> @[k] - cost[k]],
                     !.city_troops = [x \in DOMAIN db.city_troops \cup {city_id} |->
               IF x = city_id
               THEN [c \in DOMAIN rows \cup DOMAIN troops |->
                       (IF c \in DOMAIN rows THEN rows[c] ELSE 0)
                       + (IF c \in DOMAIN troops THEN troops[c] ELSE 0)]
               ELSE db.city_troops[x]]]

(***************************************************************************)
(* The server as a state machine.                                          *)
(***************************************************************************)
VARIABLES
  db,                    \* the committed store
  clock,                 \* datetime.utcnow(), in seconds
  last_global_tick_at,   \* _LAST_GLOBAL_TICK_AT of tick_util
  tick_on_read,          \* TICK_ON_READ, read from the environment at start-up
  tk                     \* the tick in progress: its session's working copy and loop position

vars == <<db, clock, last_global_tick_at, tick_on_read, tk>>

\* no tick is in progress
Idle == [phase |-> "idle"]

\* Bounds of the model.
WarmUp == 3600
MaxCities == 2
MaxRaids == 2
ClockOffsets == {1, 60}
Times == {WarmUp} \cup {WarmUp + d : d \in ClockOffsets}
SendChoices == {[t1_inf |-> 4]}
GarrisonChoices == {<<"t1_inf", 10>>}
TravelChoices == {None}
UpgradeChoices == {"farm"}

\* The world one hour after the registrations: every keep upgraded at time 0,
\* one tick at WarmUp, then a garrison set for every city.
RECURSIVE WarmRegistered(_)
WarmRegistered(n) ==
  IF n = 0 THEN EmptyDb
  ELSE start_upgrade(register(WarmRegistered(n - 1), 0), n, n, "townhall", FALSE, 0)

RECURSIVE WarmGarrisoned(_, _)
WarmGarrisoned(d, n) ==
  IF n = 0 THEN d ELSE admin_set_city_troops(WarmGarrisoned(d, n - 1), n, "t1_inf", 10, TRUE)

Warm(n) == WarmGarrisoned(tick_all_cities(WarmRegistered(n), WarmUp).db, n)

Init ==
  /\ db \in {Warm(1), Warm(2)}
  /\ clock = WarmUp
  /\ tick_on_read \in BOOLEAN
  /\ last_global_tick_at = IF tick_on_read THEN WarmUp ELSE None
  /\ tk = Idle

AdvanceClock ==
  /\ tk = Idle
  /\ \E t \in Times : t > clock /\ clock' = t
  /\ UNCHANGED <<db, last_global_tick_at, tick_on_read, tk>>

\* POST /auth/register
Register ==
  /\ tk = Idle
  /\ Len(db.buildings) < MaxCities
  /\ db' = register(db, clock)
  /\ UNCHANGED <<clock, last_global_tick_at, tick_on_read, tk>>

\* POST /cities/{id}/troops/set with the admin key
AdminSetTroops ==
  /\ tk = Idle
  /\ \E c \in DOMAIN db.cities, g \in GarrisonChoices :
        /\ Garrison(db, c, g[1]) = 0
        /\ db' = admin_set_city_troops(db, c, g[1], g[2], TRUE)
  /\ UNCHANGED <<clock, last_global_tick_at, tick_on_read, tk>>

\* POST /cities/{id}/upgrade by the owner
StartUpgrade ==
  /\ tk = Idle
  /\ \E c \in DOMAIN db.cities, t \in UpgradeChoices :
        /\ StartUpgradeOk(db, db.cities[c].owner_id, c, t, FALSE)
        /\ db' = start_upgrade(db, db.cities[c].owner_id, c, t, FALSE, clock)
  /\ UNCHANGED <<clock, last_global_tick_at, tick_on_read, tk>>

\* POST /raids by the attacker's owner
CreateRaid ==
  /\ tk = Idle
  /\ Len(db.raids) < MaxRaids
  /\ \E a \in DOMAIN db.cities, t \in DOMAIN db.cities, troops \in SendChoices,
        travel \in TravelChoices :
        /\ CreateRaidOk(db, db.cities[a].owner_id, a, t, troops, FALSE)
        /\ db' = create_raid(db, db.cities[a].owner_id, a, t, troops, travel, FALSE, clock)
  /\ UNCHANGED <<clock, last_global_tick_at, tick_on_read, tk>>

\* POST /raids/{id}/recall by the attacker's owner: the gate, then the recall
RecallGated(g) ==
  /\ \E rid \in 1..Len(g.db.raids) :
        /\ CityExists(g.db, g.db.raids[rid].attacker_city_id)
        /\ RecallOk(g.db, g.db.cities[g.db.raids[rid].attacker_city_id].owner_id, rid, FALSE)
        /\ db' = recall_raid(g.db, g.db.cities[g.db.raids[rid].attacker_city_id].owner_id,
                             rid, FALSE, clock)
  /\ last_global_tick_at' = g.last

Recall ==
  /\ tk = Idle
  /\ RecallGated(tick_world_now(db, tick_on_read, last_global_tick_at, clock))
  /\ UNCHANGED <<clock, tick_on_read, tk>>

\* POST /game/tick with the admin key
RunTick ==
  /\ tk = Idle
  /\ db' = tick_all_cities(db, clock).db
  /\ UNCHANGED <<clock, last_global_tick_at, tick_on_read, tk>>

\* any read that only passes the gate (GET /cities/{id}, GET /raids, ...)
GateCommit(g) == db' = g.db /\ last_global_tick_at' = g.last

TickOnRead ==
  /\ tk = Idle
  /\ GateCommit(tick_world_now(db, tick_on_read, last_global_tick_at, clock))
  /\ UNCHANGED <<clock, tick_on_read, tk>>

Next ==
  \/ AdvanceClock
  \/ Register
  \/ AdminSetTroops
  \/ StartUpgrade
  \/ CreateRaid
  \/ Recall
  \/ RunTick
  \/ TickOnRead

Spec == Init /\ [][Next]_vars

(***************************************************************************)
(* The same server with POST /game/tick taken one pass at a time: the tick *)
(* works on its session's copy of the store and commits at the end.        *)
(***************************************************************************)
InitStep ==
  /\ db \in {Warm(1), Warm(2)}
  /\ clock = WarmUp
  /\ tick_on_read = FALSE
  /\ last_global_tick_at = None
  /\ tk = Idle

\* now, cities, start, the counters, and the first `event_time = ... or now`
TickEnter(now, start) ==
  [phase |-> "produce", now |-> now, start |-> start, current_time |-> start,
   event_time |-> EventTime(db, start, now), acc |-> TickAcc(db, start)]

TickBegin ==
  /\ tk = Idle
  /\ tk' = TickEnter(clock, TickStart(db, clock))
  /\ UNCHANGED <<db, clock, last_global_tick_at, tick_on_read>>

\* `for c in cities: ... apply_city_tick(c, event_time, db)`
TickProduce ==
  /\ tk.phase = "produce"
  /\ tk' = [tk EXCEPT !.acc = StepProduce(tk.acc, tk.event_time), !.phase = "upgrades"]
  /\ UNCHANGED <<db, clock, last_global_tick_at, tick_on_read>>

TickUpgrades ==
  /\ tk.phase = "upgrades"
  /\ tk' = [tk EXCEPT !.acc = StepUpgrades(tk.acc, tk.event_time), !.phase = "arrivals"]
  /\ UNCHANGED <<db, clock, last_global_tick_at, tick_on_read>>

TickArrivals ==
  /\ tk.phase = "arrivals"
  /\ tk' = [tk EXCEPT !.acc = StepArrivals(tk.acc, tk.event_time), !.phase = "returns"]
  /\ UNCHANGED <<db, clock, last_global_tick_at, tick_on_read>>

\* variant of LoopBack without `current_time = event_time`
LoopBack_stale(t, acc) ==
  IF t.event_time >= t.now
  THEN [t EXCEPT !.acc = acc, !.phase = "commit"]
  ELSE [t EXCEPT !.acc = acc, !.phase = "produce",
                 !.event_time = EventTime(acc.fl, t.current_time, t.now)]

\* current_time = event_time; break when it has reached now, else the next event_time
LoopBack(t, acc) ==
  IF t.event_time >= t.now
  THEN [t EXCEPT !.acc = acc, !.current_time = t.event_time, !.phase = "commit"]
  ELSE [t EXCEPT !.acc = acc, !.current_time = t.event_time, !.phase = "produce",
                 !.event_time = EventTime(acc.fl, t.event_time, t.now)]

TickReturns ==
  /\ tk.phase = "returns"
  /\ tk' = LoopBack(tk, StepReturns(tk.acc, tk.event_time))
  /\ UNCHANGED <<db, clock, last_global_tick_at, tick_on_read>>

\* db.commit()
TickCommit ==
  /\ tk.phase = "commit"
  /\ db' = tk.acc.db
  /\ tk' = Idle
  /\ UNCHANGED <<clock, last_global_tick_at, tick_on_read>>

NextStep ==
  \/ AdvanceClock
  \/ Register
  \/ AdminSetTroops
  \/ StartUpgrade
  \/ CreateRaid
  \/ Recall
  \/ TickBegin
  \/ TickProduce
  \/ TickUpgrades
  \/ TickArrivals
  \/ TickReturns
  \/ TickCommit

SpecStep == InitStep /\ [][NextStep]_vars

(***************************************************************************)
(* The pass-by-pass server with City rows deleted behind its back.  No     *)
(* route deletes a city; the deletion is taken from the specification      *)
(* ("attacker/target city deleted mid-flight").                            *)
(***************************************************************************)
MaxDeleted == 1

\* the City row goes; rows of other tables that name the city stay
delete_city(d, city_id) ==
  [d EXCEPT !.cities = [c \in DOMAIN d.cities \ {city_id} |-> d.cities[c]]]

DeleteCity ==
  /\ tk = Idle
  /\ Len(db.buildings) - Cardinality(DOMAIN db.cities) < MaxDeleted
  /\ \E c \in DOMAIN db.cities : db' = delete_city(db, c)
  /\ UNCHANGED <<clock, last_global_tick_at, tick_on_read, tk>>

InitOrphan ==
  /\ db = Warm(2)
  /\ clock = WarmUp
  /\ tick_on_read = FALSE
  /\ last_global_tick_at = None
  /\ tk = Idle

NextOrphan ==
  \/ AdvanceClock
  \/ CreateRaid
  \/ Recall
  \/ DeleteCity
  \/ TickBegin
  \/ TickProduce
  \/ TickUpgrades
  \/ TickArrivals
  \/ TickReturns
  \/ TickCommit

SpecOrphan == InitOrphan /\ [][NextOrphan]_vars

(***************************************************************************)
(* _proportional_take on its own: the arguments are drawn from bounded     *)
(* sets and the call is one step.                                          *)
(***************************************************************************)
MaxLoot == 3
MaxCapacity == 13

InitTake ==
  /\ db = EmptyDb
  /\ clock = 0
  /\ tick_on_read = FALSE
  /\ last_global_tick_at = None
  /\ \E loot \in [Res -> 0..MaxLoot], capacity \in -1..MaxCapacity :
        tk = [phase |-> "loot", loot |-> loot, capacity |-> capacity]

\* taken = _proportional_take(loot, capacity)
TakeLoot ==
  /\ tk.phase = "loot"
  /\ \E taken \in TakeOutcomes(tk.loot, tk.capacity) :
        tk' = [phase |-> "taken", loot |-> tk.loot, capacity |-> tk.capacity, taken |-> taken]
  /\ UNCHANGED <<db, clock, last_global_tick_at, tick_on_read>>

NextTake == TakeLoot

SpecTake == InitTake /\ [][NextTake]_vars

(***************************************************************************)
(* The server four hours after the registrations, when every stock has     *)
(* grown to its cap, with troop training among the requests.               *)
(***************************************************************************)
LongWarmUp == 14400
MaxGarrison == 10
StockTimes == {LongWarmUp + d : d \in ClockOffsets}
TrainChoices == {[t1_inf |-> 4]}

Old(n) == WarmGarrisoned(tick_all_cities(WarmRegistered(n), LongWarmUp).db, n)

InitStock ==
  /\ db \in {Old(1), Old(2)}
  /\ clock = LongWarmUp
  /\ tick_on_read \in BOOLEAN
  /\ last_global_tick_at = IF tick_on_read THEN LongWarmUp ELSE None
  /\ tk = Idle

AdvanceClockStock ==
  /\ tk = Idle
  /\ \E t \in StockTimes : t > clock /\ clock' = t
  /\ UNCHANGED <<db, last_global_tick_at, tick_on_read, tk>>

\* POST /cities/{id}/train by the owner: the gate, then the training
TrainGated(g) ==
  /\ \E c \in DOMAIN g.db.cities, troops \in TrainChoices :
        /\ TrainOk(g.db, g.db.cities[c].owner_id, c, troops, FALSE)
        /\ \A code \in DOMAIN troops : Garrison(g.db, c, code) + troops[code] <= MaxGarrison
        /\ db' = train_troops(g.db, g.db.cities[c].owner_id, c, troops, FALSE)
  /\ last_global_tick_at' = g.last

TrainTroops ==
  /\ tk = Idle
  /\ TrainGated(tick_world_now(db, tick_on_read, last_global_tick_at, clock))
  /\ UNCHANGED <<clock, tick_on_read, tk>>

NextStock ==
  \/ AdvanceClockStock
  \/ StartUpgrade
  \/ TrainTroops
  \/ CreateRaid
  \/ Recall
  \/ RunTick
  \/ TickOnRead

SpecStock == InitStock /\ [][NextStock]_vars

(***************************************************************************)
(* The pass-by-pass server with a tick that can raise before its commit.   *)
(* No pass catches an exception, so the request ends and get_db closes the *)
(* session, which discards the session's working copy.                     *)
(***************************************************************************)
InitFail ==
  /\ db = Warm(2)
  /\ clock = WarmUp
  /\ tick_on_read = FALSE
  /\ last_global_tick_at = None
  /\ tk = Idle

\* an exception leaves tick_all_cities from inside the loop or from db.commit()
TickRaise ==
  /\ tk.phase \in {"produce", "upgrades", "arrivals", "returns", "commit"}
  /\ tk' = [tk EXCEPT !.phase = "failed"]
  /\ UNCHANGED <<db, clock, last_global_tick_at, tick_on_read>>

\* the working copy when the mail of due raid rid raises: the due raids before it
\* are done, raid rid is resolved and credited, its mail rows are not written
MailFailedAt(s, due, rid, event_time) ==
  ReturnCredited(FoldReturns(s, {x \in due : x < rid}, 1, event_time).db, rid, event_time)

\* send_raid_result_mail raises in send_mail, called from the return pass
MailRaise ==
  /\ tk.phase = "returns"
  /\ \E rid \in ReturnDue(tk.acc.fl, tk.event_time) :
        /\ CityExists(tk.acc.db, tk.acc.db.raids[rid].attacker_city_id)
        /\ CityExists(tk.acc.db, tk.acc.db.raids[rid].target_city_id)
        /\ tk' = [phase |-> "mail_failed", raid_id |-> rid,
                  acc |-> [tk.acc EXCEPT !.db = MailFailedAt(AccSession(tk.acc),
                                                   ReturnDue(tk.acc.fl, tk.event_time),
                                                   rid, tk.event_time)]]
  /\ UNCHANGED <<db, clock, last_global_tick_at, tick_on_read>>

\* variant of SessionClose that writes the working copy to the store
SessionCloseFlushed ==
  /\ tk.phase \in {"failed", "mail_failed"}
  /\ db' = tk.acc.db
  /\ tk' = Idle
  /\ UNCHANGED <<clock, last_global_tick_at, tick_on_read>>

\* `finally: db.close()` of get_db
SessionClose ==
  /\ tk.phase \in {"failed", "mail_failed"}
  /\ tk' = Idle
  /\ UNCHANGED <<db, clock, last_global_tick_at, tick_on_read>>

NextFail ==
  \/ AdvanceClock
  \/ StartUpgrade
  \/ CreateRaid
  \/ Recall
  \/ TickBegin
  \/ TickProduce
  \/ TickUpgrades
  \/ TickArrivals
  \/ TickReturns
  \/ TickCommit
  \/ TickRaise
  \/ MailRaise
  \/ SessionClose

SpecFail == InitFail /\ [][NextFail]_vars

(***************************************************************************)
(* Requests served in parallel.  Handlers run in the worker threads of the *)
(* server, each with a session of its own (get_db); nothing in the gate,   *)
(* in run_tick or in tick_all_cities takes a lock.  A session loads the    *)
(* committed rows, works on its loaded objects and writes, at its flush,   *)
(* the columns it changed and the rows it added.                           *)
(***************************************************************************)
MaxGateCalls == 3
Requests == {1, 2}
NoRequest == [at |-> "none"]

\* UPDATE writes a column only when the session changed it
MergeCol(b, s, r) == IF r = s THEN b ELSE r

\* the columns of a row, or the rows of a parent keyed by their unique key
MergeCols(b, s, r) ==
  [f \in DOMAIN b \cup DOMAIN r |->
     IF f \notin DOMAIN r THEN b[f]
     ELSE IF f \in DOMAIN s /\ f \in DOMAIN b THEN MergeCol(b[f], s[f], r[f])
     ELSE r[f]]

MergeCity(b, s, r) ==
  [f \in DOMAIN r |-> IF f \in {"stock", "max", "protected", "rate"}
                      THEN MergeCols(b[f], s[f], r[f])
                      ELSE MergeCol(b[f], s[f], r[f])]

MergeRaid(b, s, r) ==
  [f \in DOMAIN r |-> IF f = "stolen" THEN MergeCols(b[f], s[f], r[f])
                      ELSE MergeCol(b[f], s[f], r[f])]

\* a row the session adds although the committed store has got one with the same
\* unique key since the session looked: the INSERT raises IntegrityError
InsertClash(b, s, r) ==
  \/ \E rid \in DOMAIN r.raid_defender_troops \cap DOMAIN b.raid_defender_troops :
        \E c \in DOMAIN r.raid_defender_troops[rid] \cap DOMAIN b.raid_defender_troops[rid] :
           rid \in DOMAIN s.raid_defender_troops => c \notin DOMAIN s.raid_defender_troops[rid]
  \/ \E cid \in DOMAIN r.city_troops \cap DOMAIN b.city_troops :
        \E c \in DOMAIN r.city_troops[cid] \cap DOMAIN b.city_troops[cid] :
           cid \in DOMAIN s.city_troops => c \notin DOMAIN s.city_troops[cid]

\* the committed store b after a session that loaded s and ended with r commits
CommitOver(b, s, r) ==
  LET had == {s.upgrades[i] : i \in DOMAIN s.upgrades}
      gone == had \ {r.upgrades[i] : i \in DOMAIN r.upgrades}
      keep == {i \in DOMAIN b.upgrades : b.upgrades[i] \notin gone}
  IN [cities |-> [c \in DOMAIN b.cities |->
                    IF c \in DOMAIN s.cities /\ c \in DOMAIN r.cities
                    THEN MergeCity(b.cities[c], s.cities[c], r.cities[c]) ELSE b.cities[c]],
      buildings |-> [c \in DOMAIN b.buildings |->
                       IF c \in DOMAIN s.buildings
                       THEN MergeCols(b.buildings[c], s.buildings[c], r.buildings[c])
                       ELSE b.buildings[c]],
      upgrades |-> SelectSeqIdx(b.upgrades, keep)
                     \o SelectSeqIdx(r.upgrades, {i \in DOMAIN r.upgrades : r.upgrades[i] \notin had}),
      raids |-> [i \in DOMAIN b.raids |->
                   IF i \in DOMAIN s.raids THEN MergeRaid(b.raids[i], s.raids[i], r.raids[i])
                   ELSE b.raids[i]],
      raid_troops |-> [i \in DOMAIN b.raid_troops |->
                         IF i \in DOMAIN s.raid_troops
                         THEN [c \in DOMAIN b.raid_troops[i] |->
                                 MergeCols(b.raid_troops[i][c], s.raid_troops[i][c],
                                           r.raid_troops[i][c])]
                         ELSE b.raid_troops[i]],
      city_troops |-> [c \in DOMAIN b.city_troops \cup DOMAIN r.city_troops |->
                         IF c \notin DOMAIN r.city_troops THEN b.city_troops[c]
                         ELSE IF c \in DOMAIN s.city_troops /\ c \in DOMAIN b.city_troops
                         THEN MergeCols(b.city_troops[c], s.city_troops[c], r.city_troops[c])
                         ELSE r.city_troops[c]],
      raid_defender_troops |->
         [i \in DOMAIN b.raid_defender_troops |->
            IF i \notin DOMAIN s.raid_defender_troops THEN b.raid_defender_troops[i]
            ELSE [c \in DOMAIN b.raid_defender_troops[i] \cup DOMAIN r.raid_defender_troops[i] |->
                    IF c \notin DOMAIN r.raid_defender_troops[i]
                    THEN b.raid_defender_troops[i][c]
                    ELSE IF c \in DOMAIN s.raid_defender_troops[i]
                            /\ c \in DOMAIN b.raid_defender_troops[i]
                    THEN MergeCols(b.raid_defender_troops[i][c], s.raid_defender_troops[i][c],
                                   r.raid_defender_troops[i][c])
                    ELSE r.raid_defender_troops[i][c]]],
      mail |-> b.mail \o SubSeq(r.mail, Len(s.mail) + 1, Len(r.mail))]

InFlight == {i \in Requests : tk.req[i].at # "none"}

InitRace ==
  /\ db = Warm(2)
  /\ clock = WarmUp
  /\ tick_on_read \in BOOLEAN
  /\ last_global_tick_at = IF tick_on_read THEN WarmUp ELSE None
  /\ tk = [phase |-> "parallel", req |-> [i \in Requests |-> NoRequest], calls |-> << >>]

ClockParallel ==
  /\ \E t \in Times : t > clock /\ clock' = t
  /\ UNCHANGED <<db, last_global_tick_at, tick_on_read, tk>>

\* POST /raids while no other request is being served
CreateRaidAlone ==
  /\ InFlight = {}
  /\ Len(db.raids) < MaxRaids
  /\ \E a \in DOMAIN db.cities, t \in DOMAIN db.cities, troops \in SendChoices,
        travel \in TravelChoices :
        /\ CreateRaidOk(db, db.cities[a].owner_id, a, t, troops, FALSE)
        /\ db' = create_raid(db, db.cities[a].owner_id, a, t, troops, travel, FALSE, clock)
  /\ UNCHANGED <<clock, last_global_tick_at, tick_on_read, tk>>

\* the session of a request that runs the tick at now: its first query loads the cities
Ticking(gate, now, snap) == [at |-> "tick", gate |-> gate, now |-> now, snap |-> snap]

\* tick_world_now up to its call of tick_all_cities: the throttle test reads the
\* module global, which is written only after the tick has returned
GateEnter ==
  /\ tick_on_read
  /\ Len(tk.calls) < MaxGateCalls
  /\ \E i \in Requests \ InFlight :
        IF Throttled(last_global_tick_at, clock)
        THEN tk' = [tk EXCEPT !.calls = Append(@, [now |-> clock, ran |-> FALSE])]
        ELSE tk' = [tk EXCEPT !.req[i] = Ticking(TRUE, clock, db),
                              !.calls = Append(@, [now |-> clock, ran |-> TRUE])]
  /\ UNCHANGED <<db, clock, last_global_tick_at, tick_on_read>>

\* POST /game/tick up to the first query of tick_all_cities
RunTickEnter ==
  /\ \E i \in Requests \ InFlight : tk' = [tk EXCEPT !.req[i] = Ticking(FALSE, clock, db)]
  /\ UNCHANGED <<db, clock, last_global_tick_at, tick_on_read>>

\* the store and the gate's global after the session of request q ended with r
Finished(b, last, q, r) ==
  IF InsertClash(b, q.snap, r) THEN [db |-> b, last |-> last]
  ELSE [db |-> CommitOver(b, q.snap, r), last |-> IF q.gate THEN q.now ELSE last]

\* the rest of the tick and its commit; the gate then records its `now`
TickFinish ==
  /\ \E i \in InFlight :
        /\ tk.req[i].at = "tick"
        /\ GateCommit(Finished(db, last_global_tick_at, tk.req[i],
                               tick_all_cities(tk.req[i].snap, tk.req[i].now).db))
        /\ tk' = [tk EXCEPT !.req[i] = NoRequest]
  /\ UNCHANGED <<clock, tick_on_read>>

NextRace ==
  \/ ClockParallel
  \/ CreateRaidAlone
  \/ GateEnter
  \/ RunTickEnter
  \/ TickFinish

SpecRace == InitRace /\ [][NextRace]_vars

(***************************************************************************)
(* Upgrade requests served in parallel with each other and with ticks.     *)
(***************************************************************************)
MaxUpgradeCalls == 3

\* `existing = db.query(Upgrade).filter(Upgrade.city_id == city_id).first()`
HasUpgrade(d, city_id) == \E i \in 1..Len(d.upgrades) : d.upgrades[i].city_id = city_id

\* the session of a start_upgrade request that has passed every test of the handler
Upgrading(city_id, building_type, now, snap) ==
  [at |-> "upgrade", city_id |-> city_id, building_type |-> building_type,
   now |-> now, snap |-> snap]

\* the answer of the handler, kept with the city it was for
Answered(t, city_id, code, error) ==
  [t EXCEPT !.calls = Append(@, [city_id |-> city_id, code |-> code, error |-> error])]

InitBuild ==
  /\ db = Warm(2)
  /\ clock = WarmUp
  /\ tick_on_read = FALSE
  /\ last_global_tick_at = None
  /\ tk = [phase |-> "parallel", req |-> [i \in Requests |-> NoRequest], calls |-> << >>]

\* POST /cities/{id}/upgrade by the owner, up to `db.add(up)`
UpgradeEnter ==
  /\ Len(tk.calls) + Cardinality(InFlight) < MaxUpgradeCalls
  /\ \E i \in Requests \ InFlight, c \in DOMAIN db.cities, t \in UpgradeChoices :
        IF HasUpgrade(db, c) THEN tk' = Answered(tk, c, 409, "Upgrade already in progress")
        ELSE IF ~StartUpgradeOk(db, db.cities[c].owner_id, c, t, FALSE)
        THEN tk' = Answered(tk, c, 400, "Prerequisites or resources")
        ELSE tk' = [tk EXCEPT !.req[i] = Upgrading(c, t, clock, db)]
  /\ UNCHANGED <<db, clock, last_global_tick_at, tick_on_read>>

\* variant of UpgradeCommitted for an upgrades table without its unique key
UpgradeCommitted_unconstrained(b, q) ==
  CommitOver(b, q.snap,
             start_upgrade(q.snap, q.snap.cities[q.city_id].owner_id, q.city_id,
                           q.building_type, FALSE, q.now))

\* the store after `db.commit()` of the request q: the INSERT of a second row for the
\* city raises IntegrityError and the handler rolls the session back
UpgradeCommitted(b, q) ==
  IF HasUpgrade(b, q.city_id) THEN b
  ELSE CommitOver(b, q.snap,
                  start_upgrade(q.snap, q.snap.cities[q.city_id].owner_id, q.city_id,
                                q.building_type, FALSE, q.now))

UpgradeFinish ==
  /\ \E i \in InFlight :
        /\ tk.req[i].at = "upgrade"
        /\ db' = UpgradeCommitted(db, tk.req[i])
        /\ tk' = IF HasUpgrade(db, tk.req[i].city_id)
                 THEN Answered([tk EXCEPT !.req[i] = NoRequest], tk.req[i].city_id, 409,
                               "Upgrade already in progress (db constraint)")
                 ELSE Answered([tk EXCEPT !.req[i] = NoRequest], tk.req[i].city_id, 200, "")
  /\ UNCHANGED <<clock, last_global_tick_at, tick_on_read>>

NextBuild ==
  \/ ClockParallel
  \/ UpgradeEnter
  \/ UpgradeFinish
  \/ RunTickEnter
  \/ TickFinish

SpecBuild == InitBuild /\ [][NextBuild]_vars

(***************************************************************************)
(* The loss rates on their own: the attacker's lines, the garrison and a   *)
(* reinforcement of the garrison are drawn from bounded sets, and one step *)
(* computes the rates against the garrison and against the reinforced one. *)
(***************************************************************************)
MaxSent == 3
MaxDefenders == 4
AttackerCodes == {"t1_inf", "t1_siege"}
DefenderCodes == {"t1_inf", "t1_rng"}

InitCombat ==
  /\ db = EmptyDb
  /\ clock = 0
  /\ tick_on_read = FALSE
  /\ last_global_tick_at = None
  /\ \E sent \in [AttackerCodes -> 0..MaxSent], garrison \in [DefenderCodes -> 0..MaxDefenders],
        more \in [DefenderCodes -> 0..MaxDefenders] :
        tk = [phase |-> "armies",
              atk_lines |-> [c \in AttackerCodes |-> [count_sent |-> sent[c], count_lost |-> 0]],
              def_rows |-> garrison,
              def_more |-> [c \in DefenderCodes |-> garrison[c] + more[c]],
              rates |-> << >>, rates_more |-> << >>]

\* the two rates of one combat
LossRates(atk_power, def_power) ==
  [attacker |-> attacker_loss_rate(atk_power, def_power),
   defender |-> defender_loss_rate(atk_power, def_power)]

\* `ratio = ...; attacker_loss_rate = ...; defender_loss_rate = ...` for both garrisons
Fight ==
  /\ tk.phase = "armies"
  /\ AtkPower(tk.atk_lines) > 0
  /\ DefPower(tk.def_rows) > 0
  /\ tk' = [tk EXCEPT !.phase = "fought",
                      !.rates = LossRates(AtkPower(tk.atk_lines), DefPower(tk.def_rows)),
                      !.rates_more = LossRates(AtkPower(tk.atk_lines), DefPower(tk.def_more))]
  /\ UNCHANGED <<db, clock, last_global_tick_at, tick_on_read>>

NextCombat == Fight

SpecCombat == InitCombat /\ [][NextCombat]_vars

(***************************************************************************)
(* The pass-by-pass server with a garrison of one defender in the second   *)
(* city: a raid of four can wipe it out.                                   *)
(***************************************************************************)
WeakGarrison == 1

InitWeak ==
  /\ db = admin_set_city_troops(Warm(2), 2, "t1_inf", WeakGarrison, TRUE)
  /\ clock = WarmUp
  /\ tick_on_read = FALSE
  /\ last_global_tick_at = None
  /\ tk = Idle

NextWeak ==
  \/ AdvanceClock
  \/ AdminSetTroops
  \/ StartUpgrade
  \/ CreateRaid
  \/ Recall
  \/ TickBegin
  \/ TickProduce
  \/ TickUpgrades
  \/ TickArrivals
  \/ TickReturns
  \/ TickCommit

SpecWeak == InitWeak /\ [][NextWeak]_vars

(***************************************************************************)
(* Tick requests served in parallel over two minutes of the clock.         *)
(***************************************************************************)
LateTimes == {WarmUp + 60, WarmUp + 120}

InitLate ==
  /\ db = Warm(2)
  /\ clock = WarmUp
  /\ tick_on_read = FALSE
  /\ last_global_tick_at = None
  /\ tk = [phase |-> "parallel", req |-> [i \in Requests |-> NoRequest], calls |-> << >>]

ClockLate ==
  /\ \E t \in LateTimes : t > clock /\ clock' = t
  /\ UNCHANGED <<db, last_global_tick_at, tick_on_read, tk>>

NextLate ==
  \/ ClockLate
  \/ CreateRaidAlone
  \/ RunTickEnter
  \/ TickFinish

SpecLate == InitLate /\ [][NextLate]_vars

(***************************************************************************)
(* The storage derivation on its own: one city whose warehouse row is      *)
(* missing or at a level drawn from a bounded set, next to the same city   *)
(* with a warehouse that is not lower; one step refreshes the caps.        *)
(***************************************************************************)
MaxWarehouseLevel == 12
WarehouseChoices == {None} \cup 0..MaxWarehouseLevel

\* the Building rows of a city whose warehouse row is missing (None) or at level lvl
BuildingsWith(lvl) ==
  IF lvl = None THEN [t \in BuildingTypes \ {"warehouse"} |-> 1]
  ELSE [t \in BuildingTypes |-> IF t = "warehouse" THEN lvl ELSE 1]

WithWarehouse(d, city_id, lvl) == [d EXCEPT !.buildings[city_id] = BuildingsWith(lvl)]

InitStorage ==
  /\ clock = 0
  /\ tick_on_read = FALSE
  /\ last_global_tick_at = None
  /\ \E lvl \in WarehouseChoices, more \in WarehouseChoices :
        /\ LevelOf(BuildingsWith(more), "warehouse") >= LevelOf(BuildingsWith(lvl), "warehouse")
        /\ db = WithWarehouse(register(EmptyDb, 0), 1, lvl)
        /\ tk = [phase |-> "levels", wh_lvl |-> lvl, wh_more |-> more,
                 storage |-> << >>, storage_more |-> << >>]

\* `storage = _recalc_storage_for_city(db, city.id)` and the eight assignments
RefreshCaps ==
  /\ tk.phase = "levels"
  /\ db' = RefreshStorage(db, 1)
  /\ tk' = [tk EXCEPT !.phase = "refreshed",
                      !.storage = recalc_storage_for_city(db, 1),
                      !.storage_more =
                         recalc_storage_for_city(WithWarehouse(db, 1, tk.wh_more), 1)]
  /\ UNCHANGED <<clock, last_global_tick_at, tick_on_read>>

NextStorage == RefreshCaps

SpecStorage == InitStorage /\ [][NextStorage]_vars

(***************************************************************************)
(* apply_city_tick on its own: one warmed city, its stocks as warmed or    *)
(* close to the caps, and a non-decreasing sequence of target times drawn  *)
(* from a bounded set around its last_tick_at; one step per call.          *)
(***************************************************************************)
MaxCalls == 3
NearCap == 40
TargetTimes == {WarmUp - 60, WarmUp - 1, WarmUp + 1, WarmUp + 60, WarmUp + 119,
                WarmUp + 120, WarmUp + 190}

TargetSequences ==
  {q \in UNION {[1..n -> TargetTimes] : n \in 1..MaxCalls} :
     \A i \in 1..(Len(q) - 1) : q[i] <= q[i + 1]}

\* the warmed city with every stock NearCap below its cap
CloseToCaps(d) ==
  [d EXCEPT !.cities[1].stock = [k \in Res |-> d.cities[1].max[k] - NearCap]]

InitSplit ==
  /\ clock = WarmUp
  /\ tick_on_read = FALSE
  /\ last_global_tick_at = None
  /\ db \in {Warm(1), CloseToCaps(Warm(1))}
  /\ \E q \in TargetSequences :
        tk = [phase |-> "calls", times |-> q, done |-> 0, minutes |-> 0, start |-> db]

\* the state of the calls after one more call returned `out`
Called(t, out) ==
  [t EXCEPT !.done = t.done + 1, !.minutes = t.minutes + out.minutes,
            !.phase = IF t.done + 1 = Len(t.times) THEN "returned" ELSE "calls"]

\* apply_city_tick(city, t, db) for the next target time of the sequence
ApplyNext ==
  /\ tk.phase = "calls"
  /\ db' = apply_city_tick(db, 1, tk.times[tk.done + 1]).db
  /\ tk' = Called(tk, apply_city_tick(db, 1, tk.times[tk.done + 1]))
  /\ UNCHANGED <<clock, last_global_tick_at, tick_on_read>>

NextSplit == ApplyNext

SpecSplit == InitSplit /\ [][NextSplit]_vars

(***************************************************************************)
(* The pass-by-pass server with one raid row written before the travel     *)
(* times were stored: its outbound_seconds and return_seconds can carry    *)
(* the column default 0, and its created_at lies at or before arrives_at.  *)
(***************************************************************************)
LegacySeconds == {0, 7}
LegacyTravel == {0, 1, 30}

\* raid 1 of store d with the stored seconds replaced and created_at moved
LegacyRaid(d, ob, rs, travelled) ==
  [d EXCEPT !.raids[1].outbound_seconds = ob,
            !.raids[1].return_seconds = rs,
            !.raids[1].created_at = d.raids[1].arrives_at - travelled]

InitLegacy ==
  /\ \E ob \in LegacySeconds, rs \in LegacySeconds, travelled \in LegacyTravel :
        db = LegacyRaid(create_raid(Warm(2), 1, 1, 2, [t1_inf |-> 4], None, FALSE, WarmUp),
                        ob, rs, travelled)
  /\ clock = WarmUp
  /\ tick_on_read = FALSE
  /\ last_global_tick_at = None
  /\ tk = Idle

NextLegacy ==
  \/ AdvanceClock
  \/ CreateRaid
  \/ Recall
  \/ TickBegin
  \/ TickProduce
  \/ TickUpgrades
  \/ TickArrivals
  \/ TickReturns
  \/ TickCommit

SpecLegacy == InitLegacy /\ [][NextLegacy]_vars

(***************************************************************************)
(* The pass-by-pass server over three minutes, with farm and warehouse     *)
(* upgrades started one minute after the last tick: they complete between  *)
(* two minute boundaries of their city, and a raid sent one second before  *)
(* arrives at the very instant of completion.                              *)
(***************************************************************************)
LateUpgradeChoices == {"farm", "warehouse"}
UpgradedCity == 2
UpgradeStartAt == WarmUp + SECONDS_PER_MINUTE
UpgradeDoneAt(t) == UpgradeStartAt + upgrade_time_seconds(t, 2)
UpgradeTimes ==
  {UpgradeStartAt, WarmUp + 2 * SECONDS_PER_MINUTE, WarmUp + 3 * SECONDS_PER_MINUTE}
    \cup {UpgradeDoneAt(t) - 1 : t \in LateUpgradeChoices}

InitUpgrade ==
  /\ db = Warm(2)
  /\ clock = WarmUp
  /\ tick_on_read = FALSE
  /\ last_global_tick_at = None
  /\ tk = Idle

ClockUpgrade ==
  /\ tk = Idle
  /\ \E t \in UpgradeTimes : t > clock /\ clock' = t
  /\ UNCHANGED <<db, last_global_tick_at, tick_on_read, tk>>

\* POST /cities/{id}/upgrade by the owner
StartUpgradeLate ==
  /\ tk = Idle
  /\ \E t \in LateUpgradeChoices :
        /\ StartUpgradeOk(db, db.cities[UpgradedCity].owner_id, UpgradedCity, t, FALSE)
        /\ db' = start_upgrade(db, db.cities[UpgradedCity].owner_id, UpgradedCity, t, FALSE, clock)
  /\ UNCHANGED <<clock, last_global_tick_at, tick_on_read, tk>>

\* POST /raids by the owner of city 1 against the upgraded city
CreateRaidUpgraded ==
  /\ tk = Idle
  /\ Len(db.raids) < 1
  /\ \E troops \in SendChoices :
        /\ CreateRaidOk(db, db.cities[1].owner_id, 1, UpgradedCity, troops, FALSE)
        /\ db' = create_raid(db, db.cities[1].owner_id, 1, UpgradedCity, troops, None, FALSE, clock)
  /\ UNCHANGED <<clock, last_global_tick_at, tick_on_read, tk>>

NextUpgrade ==
  \/ ClockUpgrade
  \/ StartUpgradeLate
  \/ CreateRaidUpgraded
  \/ TickBegin
  \/ TickProduce
  \/ TickUpgrades
  \/ TickArrivals
  \/ TickReturns
  \/ TickCommit

SpecUpgrade == InitUpgrade /\ [][NextUpgrade]_vars

(***************************************************************************)
(* The arrival pass with the due raids in the order the store returns      *)
(* them: the query of tick.py:377-381 has no ORDER BY.                     *)
(***************************************************************************)
Orders(S) ==
  {o \in [1..Cardinality(S) -> S] : \A i, j \in 1..Cardinality(S) : i # j => o[i] # o[j]}

\* `for r in due:` with due in the given order
RECURSIVE FoldArrivalsIn(_, _, _, _)
FoldArrivalsIn(s, order, i, event_time) ==
  IF i > Len(order) THEN s
  ELSE FoldArrivalsIn([db |-> ArriveOne(s.db, order[i], event_time),
                       fl |-> ArriveFlushed(s.db, s.fl, order[i])],
                      order, i + 1, event_time)

resolve_arrivals_in(s, event_time, order) ==
  LET out == FoldArrivalsIn(s, order, 1, event_time)
  IN [db |-> out.db, fl |-> out.fl, count |-> Len(order)]

SizedSendChoices == {[t1_inf |-> 4], [t1_inf |-> 1]}
SharedTarget == 3

InitOrder ==
  /\ db = Warm(SharedTarget)
  /\ clock = WarmUp
  /\ tick_on_read = FALSE
  /\ last_global_tick_at = None
  /\ tk = Idle

TickArrivalsIn ==
  /\ tk.phase = "arrivals"
  /\ \E order \in Orders(ArrivalDue(tk.acc.fl, tk.event_time)) :
        tk' = [tk EXCEPT !.acc = AccArrived(tk.acc, resolve_arrivals_in(AccSession(tk.acc),
                                                                         tk.event_time, order)),
                         !.phase = "returns"]
  /\ UNCHANGED <<db, clock, last_global_tick_at, tick_on_read>>

\* POST /raids by the attacker's owner, with armies of two sizes
CreateRaidSized ==
  /\ tk = Idle
  /\ Len(db.raids) < MaxRaids
  /\ \E a \in DOMAIN db.cities, troops \in SizedSendChoices :
        /\ CreateRaidOk(db, db.cities[a].owner_id, a, SharedTarget, troops, FALSE)
        /\ db' = create_raid(db, db.cities[a].owner_id, a, SharedTarget, troops, None, FALSE, clock)
  /\ UNCHANGED <<clock, last_global_tick_at, tick_on_read, tk>>

NextOrder ==
  \/ AdvanceClock
  \/ CreateRaidSized
  \/ TickBegin
  \/ TickProduce
  \/ TickUpgrades
  \/ TickArrivalsIn
  \/ TickReturns
  \/ TickCommit

SpecOrder == InitOrder /\ [][NextOrder]_vars

(***************************************************************************)
(* The tick-on-read gate step by step: the call reads the time, returns at *)
(* once when ticking is disabled or throttled, and otherwise runs the tick *)
(* pass by pass; the tick can raise before its commit.                     *)
(***************************************************************************)
InitGate ==
  /\ db = Warm(2)
  /\ clock = WarmUp
  /\ tick_on_read \in BOOLEAN
  /\ last_global_tick_at \in (IF tick_on_read THEN {None, WarmUp} ELSE {None})
  /\ tk = Idle

\* `now = datetime.utcnow()`
GateCall ==
  /\ tk = Idle
  /\ tk' = [phase |-> "gate", now |-> clock]
  /\ UNCHANGED <<db, clock, last_global_tick_at, tick_on_read>>

\* `if not TICK_ON_READ: return now` and the throttle's `return now`
GateSkip ==
  /\ tk.phase = "gate"
  /\ ~tick_on_read \/ Throttled(last_global_tick_at, tk.now)
  /\ tk' = Idle
  /\ UNCHANGED <<db, clock, last_global_tick_at, tick_on_read>>

\* the call of tick_all_cities(db, now), up to its first event time
GateTick ==
  /\ tk.phase = "gate"
  /\ tick_on_read /\ ~Throttled(last_global_tick_at, tk.now)
  /\ tk' = TickEnter(tk.now, TickStart(db, tk.now))
  /\ UNCHANGED <<db, clock, last_global_tick_at, tick_on_read>>

\* variant of StampOnExit that remembers the time of a call whose tick raised
StampOnExit_always(last, now, returned) == now

\* `_LAST_GLOBAL_TICK_AT = now` runs when tick_all_cities has returned
StampOnExit(last, now, returned) == IF returned THEN now ELSE last

\* db.commit(), the return of tick_all_cities and `_LAST_GLOBAL_TICK_AT = now`
GateReturn ==
  /\ tk.phase = "commit"
  /\ db' = tk.acc.db
  /\ last_global_tick_at' = StampOnExit(last_global_tick_at, tk.now, TRUE)
  /\ tk' = Idle
  /\ UNCHANGED <<clock, tick_on_read>>

\* the exception leaves tick_world_now and the request; get_db closes the session
GateRaised ==
  /\ tk.phase = "failed"
  /\ last_global_tick_at' = StampOnExit(last_global_tick_at, tk.now, FALSE)
  /\ tk' = Idle
  /\ UNCHANGED <<db, clock, tick_on_read>>

NextGate ==
  \/ AdvanceClock
  \/ StartUpgrade
  \/ CreateRaid
  \/ GateCall
  \/ GateSkip
  \/ GateTick
  \/ TickProduce
  \/ TickUpgrades
  \/ TickArrivals
  \/ TickReturns
  \/ TickRaise
  \/ GateReturn
  \/ GateRaised

SpecGate == InitGate /\ [][NextGate]_vars

(***************************************************************************)
(* The pass-by-pass server with raids that march for half a minute, so     *)
(* that a recall can come before the arrival.                              *)
(***************************************************************************)
FarTravel == 30

InitRecall ==
  /\ db = Warm(2)
  /\ clock = WarmUp
  /\ tick_on_read = FALSE
  /\ last_global_tick_at = None
  /\ tk = Idle

\* POST /raids with travel_seconds in the request
CreateRaidFar ==
  /\ tk = Idle
  /\ Len(db.raids) < MaxRaids
  /\ \E a \in DOMAIN db.cities, t \in DOMAIN db.cities, troops \in SendChoices :
        /\ CreateRaidOk(db, db.cities[a].owner_id, a, t, troops, FALSE)
        /\ db' = create_raid(db, db.cities[a].owner_id, a, t, troops, FarTravel, FALSE, clock)
  /\ UNCHANGED <<clock, last_global_tick_at, tick_on_read, tk>>

NextRecall ==
  \/ AdvanceClock
  \/ CreateRaidFar
  \/ Recall
  \/ TickBegin
  \/ TickProduce
  \/ TickUpgrades
  \/ TickArrivals
  \/ TickReturns
  \/ TickCommit

SpecRecall == InitRecall /\ [][NextRecall]_vars

(***************************************************************************)
(* Claims.                                                                 *)
(***************************************************************************)
\* the report of a tick that found nothing to do
TickIdle(r) ==
  /\ r.summary.minutes_applied_total = 0
  /\ r.summary.upgrades_completed = 0
  /\ r.summary.raids_arrived = 0
  /\ r.summary.raids_returned = 0

SecondTickIdle(first, second) == second.db = first.db /\ TickIdle(second)

TickAgain(first, now) == SecondTickIdle(first, tick_all_cities(first.db, now))

\* C1: when tick_all_cities is called twice in succession with the same now,
\* the second call changes no stored state and reports 0 minutes applied,
\* 0 upgrades completed, 0 raids arrived and 0 raids returned.
C1_Original ==
  \A now \in Times : now >= clock => TickAgain(tick_all_cities(db, now), now)

\* distances from the clock to the instants apply_city_tick is tried at
ApplyOffsets == {0, 1, 59, 60, 61, 119, 120, 125}

SecondApplyIdle(first, second) == second.minutes = 0 /\ second.db = first.db

ApplyAgain(first, city_id, now) ==
  SecondApplyIdle(first, apply_city_tick(first.db, city_id, now))

\* C2: two consecutive calls of apply_city_tick(city, t) with the same t: the
\* second returns 0 and leaves every field of the city unchanged.
C2_ApplyCityTickIdempotent ==
  \A c \in DOMAIN db.cities : \A d \in ApplyOffsets :
     ApplyAgain(apply_city_tick(db, c, clock + d), c, clock + d)

FirstApplyWorks(first, city_id) ==
  /\ first.minutes >= 2
  /\ first.db.cities[city_id].stock # db.cities[city_id].stock
  /\ first.db.cities[city_id].last_tick_at > db.cities[city_id].last_tick_at

\* a city whose first call applies two minutes or more
C2_Witness ==
  \E c \in DOMAIN db.cities : \E d \in ApplyOffsets :
     FirstApplyWorks(apply_city_tick(db, c, clock + d), c)

\* distances from the clock to the two instants <<t1, t2>> of a split tick
SplitPairs == {<<1, 2>>, <<1, 61>>, <<55, 61>>, <<60, 121>>}

SameStore(split, whole) == split.db = whole.db

TickThenTick(d, t1, t2) == tick_all_cities(tick_all_cities(d, t1).db, t2)

\* C3: for every reachable state and every t1 <= t2, tick_all_cities(t1)
\* followed by tick_all_cities(t2) leaves the same stored state (stocks,
\* last_tick_at, building levels, pending upgrades, raid statuses, timestamps
\* and loot, troop counts) as the single call tick_all_cities(t2).
C3_Original ==
  \A p \in SplitPairs :
     SameStore(TickThenTick(db, clock + p[1], clock + p[2]),
               tick_all_cities(db, clock + p[2]))

\* due timestamps of the events that a pass resolved, from the store before
\* (d) and after (d2) it
DuesBetween(d, d2) ==
  {d.raids[i].arrives_at : i \in
     {j \in 1..Len(d.raids) : d.raids[j].status = "enroute" /\ d2.raids[j].status # "enroute"}}
  \cup {d.raids[i].returns_at : i \in
     {j \in 1..Len(d.raids) : d.raids[j].status = "returning" /\ d2.raids[j].status = "resolved"}}
  \cup {d.upgrades[i].completes_at : i \in
     {j \in 1..Len(d.upgrades) : \A k \in 1..Len(d2.upgrades) : d2.upgrades[k] # d.upgrades[j]}}

\* the events of the claim: due in (start, now]
InWindow(t, T) == t.start < T /\ T <= t.now

\* events are resolved at their own due time, and event times do not go back
ResolvedInOrder(t, T) == T = t.event_time /\ t.current_time <= t.event_time

\* a city is past T only if the tick found it there and has not moved it
NoCityAdvancedPast(d, d0, T) ==
  \A c \in DOMAIN d.cities :
     \/ d.cities[c].last_tick_at <= T
     \/ (c \in DOMAIN d0.cities /\ d.cities[c].last_tick_at = d0.cities[c].last_tick_at)

ResolvingPass == tk.phase \in {"upgrades", "arrivals", "returns"}

\* C4: whenever an upgrade completion, raid arrival or raid return with due
\* timestamp T in (start, now] is resolved, no city's last_tick_at has been advanced
\* past T (a city that the tick found already later than T and has left untouched,
\* one registered after T, is not counted), and the events of one tick are
\* resolved in non-decreasing order of their due timestamps, each at its own.
C4_Original ==
  [][ResolvingPass =>
       \A T \in DuesBetween(tk.acc.db, tk'.acc.db) :
          InWindow(tk, T) => NoCityAdvancedPast(tk.acc.db, db, T) /\ ResolvedInOrder(tk, T)]_vars

\* distances from the clock to the instants a whole tick is tried at
TickOffsets == {0, 1, 2, 60, 61}

NoneOverdue(d, now) ==
  \A i \in 1..Len(d.raids) :
     /\ ~(d.raids[i].status = "enroute" /\ d.raids[i].arrives_at <= now)
     /\ ~(d.raids[i].status = "returning" /\ d.raids[i].returns_at # None
          /\ d.raids[i].returns_at <= now)

\* what the tick did with the raids that were due in the store d it started from
DueMoved(d, d2, now) ==
  \A i \in 1..Len(d.raids) :
     /\ (d.raids[i].status = "enroute" /\ d.raids[i].arrives_at <= now)
          => d2.raids[i].status \in {"returning", "resolved"}
     /\ (d.raids[i].status = "returning" /\ d.raids[i].returns_at # None
          /\ d.raids[i].returns_at <= now) => d2.raids[i].status = "resolved"

TickProgress(d, r, now) == NoneOverdue(r.db, now) /\ DueMoved(d, r.db, now)

\* C5: after tick_all_cities(now) returns, no raid is left enroute with
\* arrives_at <= now and no raid is left returning with a non-null
\* returns_at <= now; a raid that was enroute with arrives_at <= now is
\* returning or beyond, and a raid that was returning with returns_at <= now
\* is resolved.
C5_Original ==
  \A d \in TickOffsets : TickProgress(db, tick_all_cities(db, clock + d), clock + d)

\* the store the running request works on
StoreView == IF tk = Idle THEN db ELSE tk.acc.db

LegalMove(s, s2) ==
  \/ s2 = s
  \/ (s = "enroute" /\ s2 = "returning")
  \/ (s = "returning" /\ s2 = "resolved")

\* the force-resolve of an enroute raid whose attacker or target city is gone
ForcedResolve(d, i, s2) ==
  /\ d.raids[i].status = "enroute"
  /\ s2 = "resolved"
  /\ (~CityExists(d, d.raids[i].attacker_city_id) \/ ~CityExists(d, d.raids[i].target_city_id))

\* C6 as stated: every status change made by any operation (tick arrival
\* pass, tick return pass, recall endpoint) is either enroute -> returning or
\* returning -> resolved; no raid goes from enroute directly to resolved and
\* no raid's status ever moves backwards.
C6_Original ==
  [][\A i \in 1..Len(StoreView.raids) :
        LegalMove(StoreView.raids[i].status, StoreView'.raids[i].status)]_vars

\* C6 as amended: every status change is enroute -> returning or
\* returning -> resolved, except that the arrival pass and the late recall
\* move an enroute raid straight to resolved when its attacker or target city
\* no longer exists; no status ever moves backwards.
C6_NoSkipUnlessOrphan ==
  [][\A i \in 1..Len(StoreView.raids) :
        \/ LegalMove(StoreView.raids[i].status, StoreView'.raids[i].status)
        \/ ForcedResolve(StoreView, i, StoreView'.raids[i].status)]_vars

\* both raids resolved: one went through returning and reported by mail, the
\* other one was force-resolved and has no return leg on record
C6_Witness ==
  /\ Len(db.raids) = 2
  /\ \A i \in 1..2 : db.raids[i].status = "resolved"
  /\ \E i \in 1..2 : db.raids[i].resolved_at = db.raids[i].returns_at
  /\ \E i \in 1..2 : db.raids[i].resolved_at < db.raids[i].returns_at


\* every line of the raid carries the consumed marker count_sent = count_lost
LinesConsumed(d, rid) ==
  \A c \in DOMAIN d.raid_troops[rid] :
     d.raid_troops[rid][c].count_sent = d.raid_troops[rid][c].count_lost

\* d1 is the store after one troop return for rid: the marker is on every
\* line and one more return leaves every garrison as it is
ReturnFenced(d1, rid) ==
  /\ LinesConsumed(d1, rid)
  /\ return_troops_from_raid(d1, rid).city_troops = d1.city_troops

\* C7 as stated: after _return_troops_from_raid has run once for a raid,
\* every RaidTroop line of that raid has count_sent = count_lost, so a second
\* invocation for the same raid adds zero troops to the attacker's garrison.
\* Checked on every raid that is on its way home.
C7_Original ==
  \A rid \in 1..Len(db.raids) :
     db.raids[rid].status = "returning"
        => ReturnFenced(return_troops_from_raid(db, rid), rid)


\* troops of one code that raid rid brings home
Survivors(d, rid, code) ==
  IF code \in DOMAIN d.raid_troops[rid]
  THEN Max2(0, d.raid_troops[rid][code].count_sent - d.raid_troops[rid][code].count_lost)
  ELSE 0

\* raids of city c that the pass from d0 to d1 took from returning to resolved
NewlyResolved(d0, d1, c) ==
  {rid \in 1..Len(d0.raids) :
     /\ d0.raids[rid].attacker_city_id = c
     /\ d0.raids[rid].status = "returning"
     /\ d1.raids[rid].status = "resolved"}

\* d1 is the store the return pass at event_time made of d0: garrisons grew
\* by the survivors of the raids resolved in this pass and by nothing else,
\* and one more pass at the same time adds nothing
PassFenced(d0, d1, event_time) ==
  /\ \A c \in DOMAIN d1.city_troops : \A code \in TroopCodes :
        Garrison(d1, c, code) =
           Garrison(d0, c, code)
           + SumOver(NewlyResolved(d0, d1, c),
                     [rid \in NewlyResolved(d0, d1, c) |-> Survivors(d0, rid, code)])
  /\ resolve_returns_to_resolved_at(SessionOf(d1), event_time).db.city_troops = d1.city_troops
  /\ resolve_returns_to_resolved_at(SessionOf(d1), event_time).count = 0

\* C8: once the return pass has resolved a raid, running the return pass
\* again, at the same event time or at any later one, adds no troops to the
\* attacker's garrison for that raid: a pass credits only the raids it takes
\* from returning to resolved itself.
C8_ReturnPassFenced ==
  \A d \in TickOffsets :
     PassFenced(db, resolve_returns_to_resolved_at(SessionOf(db), clock + d).db, clock + d)

\* a raid resolved earlier whose line still shows survivors and whose
\* returns_at is due again, next to a raid the pass resolves now
C8_Witness ==
  /\ \E i \in 1..Len(db.raids) :
        /\ db.raids[i].status = "resolved"
        /\ db.raids[i].returns_at # None /\ db.raids[i].returns_at <= clock
        /\ Survivors(db, i, "t1_inf") > 0
  /\ resolve_returns_to_resolved_at(SessionOf(db), clock).count > 0


\* d1 is the store after one arrival step for raid rid, d2 after one more:
\* same snapshot rows, same garrisons, same losses on the attacker's lines
CombatOnce(d1, d2, rid) ==
  /\ d2.raid_defender_troops[rid] = d1.raid_defender_troops[rid]
  /\ d2.city_troops = d1.city_troops
  /\ \A c \in DOMAIN d1.raid_troops[rid] :
        d2.raid_troops[rid][c].count_lost = d1.raid_troops[rid][c].count_lost

ArriveAgain(d1, rid, event_time) == CombatOnce(d1, ArriveOne(d1, rid, event_time), rid)

\* the whole pass run a second time at the same event time finds nothing due
PassAgain(d1, event_time) ==
  /\ resolve_arrivals_to_returning_at(SessionOf(d1), event_time).count = 0
  /\ resolve_arrivals_to_returning_at(SessionOf(d1), event_time).db = d1

\* C9: resolving the arrival of the same due raid twice produces one set of
\* defender snapshot rows, subtracts the defender losses from the target
\* garrison once and leaves every count_lost of the raid's lines unchanged
\* the second time; a second arrival pass at the same event time changes
\* nothing at all.
C9_CombatIdempotent ==
  \A d \in TickOffsets :
     /\ \A rid \in ArrivalDue(db, clock + d) :
           ArriveAgain(ArriveOne(db, rid, clock + d), rid, clock + d)
     /\ PassAgain(resolve_arrivals_to_returning_at(SessionOf(db), clock + d).db, clock + d)

\* the first arrival step cost both sides troops
BothSidesLost(d1, rid) ==
  /\ \E c \in DOMAIN d1.raid_troops[rid] : d1.raid_troops[rid][c].count_lost > 0
  /\ \E c \in DOMAIN d1.raid_defender_troops[rid] :
        d1.raid_defender_troops[rid][c].count_lost > 0

\* a due raid whose combat costs attacker and defender troops
C9_Witness ==
  \E rid \in ArrivalDue(db, clock) : BothSidesLost(ArriveOne(db, rid, clock), rid)


\* the RaidDefenderTroop rows of a raid, as _build_combat_report queries them
HasSnapshot(d, rid) == DOMAIN d.raid_defender_troops[rid] # {}

\* C10 as stated: in every reachable state, every raid whose status is
\* returning or resolved has at least one RaidDefenderTroop row, whichever
\* operation moved it out of enroute and also when the target city has no
\* garrison rows.
C10_Original ==
  \A rid \in 1..Len(db.raids) :
     db.raids[rid].status \in {"returning", "resolved"} => HasSnapshot(db, rid)


\* what the call owes: min(capacity, sum(lootable)), 0 when capacity <= 0
TakeTotal(loot, capacity) == IF capacity <= 0 THEN 0 ELSE Min2(capacity, SumRes(loot))

Conserved(loot, capacity, taken) ==
  /\ SumRes(taken) = TakeTotal(loot, capacity)
  /\ \A k \in Res : 0 <= taken[k] /\ taken[k] <= loot[k]

\* C11: for all non-negative lootable amounts and every capacity, the four
\* amounts _proportional_take returns sum to min(capacity, sum(lootable)), to
\* 0 when capacity <= 0, and no amount exceeds its lootable amount; the loop
\* never leaves capacity unallocated.  Holds for every result the call can
\* return, the one with exact quotients among them.
C11_TakeConserves ==
  tk.phase = "taken" =>
     /\ Conserved(tk.loot, tk.capacity, tk.taken)
     /\ Conserved(tk.loot, tk.capacity, proportional_take(tk.loot, tk.capacity))
     /\ proportional_take(tk.loot, tk.capacity) \in TakeOutcomes(tk.loot, tk.capacity)

\* a call that had to hand out remainders among equal claims: capacity below
\* the total, two results possible, and a resource left with less than all
C11_Witness ==
  /\ tk.phase = "taken"
  /\ 0 < tk.capacity /\ tk.capacity < SumRes(tk.loot)
  /\ Cardinality(TakeOutcomes(tk.loot, tk.capacity)) >= 2
  /\ tk.taken # TakeBase(tk.loot, tk.capacity, SumRes(tk.loot))


\* d1 is the store after the arrival of raid rid was processed in d0: every
\* stock of the target is at least the smaller of its stock before and its
\* protected floor
FloorKept(d0, d1, rid) ==
  CityExists(d1, d0.raids[rid].target_city_id) =>
     \A k \in Res :
        d1.cities[d0.raids[rid].target_city_id].stock[k] >=
           Min2(d0.cities[d0.raids[rid].target_city_id].stock[k],
                d1.cities[d0.raids[rid].target_city_id].protected[k])

\* C12: after a raid's arrival is processed, by the tick's arrival pass or by
\* the recall path, each stock of the target is >= min(its stock before the
\* arrival, its protected floor).
C12_ProtectedFloor ==
  \A rid \in 1..Len(db.raids) :
     (db.raids[rid].status = "enroute" /\ CityExists(db, db.raids[rid].target_city_id)) =>
        /\ FloorKept(db, ArriveOne(db, rid, clock), rid)
        /\ FloorKept(db, advance_to_returning_and_steal(db, rid, clock), rid)

\* the arrival took loot from the target
Looted(d1, rid) == SumRes(d1.raids[rid].stolen) > 0

\* the arrival met a target holding less than the floor of some resource
BelowFloor(d0, d1, rid) ==
  \E k \in Res :
     d0.cities[d0.raids[rid].target_city_id].stock[k]
        < d1.cities[d0.raids[rid].target_city_id].protected[k]

\* two raids due at once: one loots its target, the other finds a target
\* that holds less than its floor
C12_Witness ==
  /\ \E rid \in ArrivalDue(db, clock) :
        /\ CityExists(db, db.raids[rid].target_city_id)
        /\ CityExists(db, db.raids[rid].attacker_city_id)
        /\ Looted(ArriveOne(db, rid, clock), rid)
  /\ \E rid \in ArrivalDue(db, clock) :
        /\ CityExists(db, db.raids[rid].target_city_id)
        /\ CityExists(db, db.raids[rid].attacker_city_id)
        /\ BelowFloor(db, ArriveOne(db, rid, clock), rid)


AttackerStock(d, rid) == d.cities[d.raids[rid].attacker_city_id].stock

BothCities(d, rid) ==
  CityExists(d, d.raids[rid].attacker_city_id) /\ CityExists(d, d.raids[rid].target_city_id)

\* the arrival of rid turned d0 into d1: the loot is on the raid, the
\* attacker's stocks are as before
ArrivalHoldsLoot(d0, d1, rid) ==
  /\ AttackerStock(d1, rid) = AttackerStock(d0, rid)
  /\ \A k \in Res :
        /\ d1.raids[rid].stolen[k] >= 0
        /\ d1.raids[rid].stolen[k] =
              Max2(0, d0.cities[d0.raids[rid].target_city_id].stock[k]
                        - d1.cities[d0.raids[rid].target_city_id].stock[k])
           \/ d0.cities[d0.raids[rid].target_city_id].stock[k]
                 < d1.cities[d0.raids[rid].target_city_id].protected[k]

\* the return of rid turned d0 into d1: min(cap, stock + stolen)
ReturnCredits(d0, d1, rid) ==
  \A k \in Res :
     AttackerStock(d1, rid)[k] =
        Min2(d1.cities[d0.raids[rid].attacker_city_id].max[k],
             AttackerStock(d0, rid)[k] + d0.raids[rid].stolen[k])

\* city c has no raid on its way home in d
NoneReturning(d, c) ==
  \A rid \in 1..Len(d.raids) :
     d.raids[rid].attacker_city_id = c => d.raids[rid].status # "returning"

\* d1 is the store after a return pass on d0: a city without a returning
\* raid keeps its stocks, whatever loot its resolved raids carry
NoSecondCredit(d0, d1) ==
  \A c \in DOMAIN d0.cities : NoneReturning(d0, c) => d1.cities[c].stock = d0.cities[c].stock

\* C13: the stolen amounts are written on the raid at arrival without
\* changing the attacker's stocks; a recall of the returning raid does not
\* change them either; when the return pass resolves the raid each attacker
\* stock becomes min(cap, stock + stolen); a return pass at any later time
\* does not credit a resolved raid again.
C13_LootCreditedOnce ==
  /\ \A rid \in 1..Len(db.raids) :
        (db.raids[rid].status = "enroute" /\ BothCities(db, rid)) =>
           /\ ArrivalHoldsLoot(db, ArriveOne(db, rid, clock), rid)
           /\ ArrivalHoldsLoot(db, advance_to_returning_and_steal(db, rid, clock), rid)
  /\ \A rid \in 1..Len(db.raids) :
        (db.raids[rid].status = "returning" /\ BothCities(db, rid)) =>
           /\ AttackerStock(RecallReturning(db, rid, 0, clock), rid) = AttackerStock(db, rid)
           /\ ReturnCredits(db, ReturnOne(db, rid, clock), rid)
  /\ \A d \in TickOffsets :
        NoSecondCredit(db, resolve_returns_to_resolved_at(SessionOf(db), clock + d).db)

\* one raid is resolved with its loot credited, another one is still on its
\* way out
C13_Witness ==
  /\ \E rid \in 1..Len(db.raids) :
        /\ db.raids[rid].status = "resolved" /\ SumRes(db.raids[rid].stolen) > 0
        /\ BothCities(db, rid)
  /\ \E rid \in 1..Len(db.raids) : db.raids[rid].status = "enroute" /\ BothCities(db, rid)


\* every stock of the city lies between 0 and its storage cap
WithinCap(city) == \A k \in Res : 0 <= city.stock[k] /\ city.stock[k] <= city.max[k]

\* C14: in every reachable state, after any sequence of ticks, upgrade starts,
\* troop training, raid creations, recalls, arrivals and returns, each of a
\* city's four stocks is at least 0 and at most its storage cap.
C14_StockWithinCap == \A c \in DOMAIN db.cities : WithinCap(db.cities[c])

\* the city holds exactly its caps
Full(city) == \A k \in Res : city.stock[k] = city.max[k]

\* a training of four has just been paid out of a full store
PaidTraining(city) ==
  /\ city.stock["food"] = city.max["food"] - 4
  /\ city.stock["wood"] = city.max["wood"] - 4
  /\ city.stock["stone"] = city.max["stone"]

\* loot has come home to a city that is full, and a later tick has produced into a
\* full city, while another city has just paid for a training
C14_Witness ==
  /\ \E c \in DOMAIN db.cities : PaidTraining(db.cities[c])
  /\ \E c \in DOMAIN db.cities : Full(db.cities[c]) /\ db.cities[c].last_tick_at > LongWarmUp
  /\ \E i \in 1..Len(db.raids) :
        /\ db.raids[i].status = "resolved"
        /\ SumRes(db.raids[i].stolen) > 0
        /\ Full(db.cities[db.raids[i].attacker_city_id])


\* the step is the commit of the tick in progress
CommitStep == tk.phase = "commit" /\ tk' = Idle /\ db' = tk.acc.db

\* C15: from the start of a call of tick_all_cities until its commit, the committed
\* store does not change, so a call that fails before its commit leaves the committed
\* store equal to the store before the call: none of its production, completed
\* upgrades, raid transitions, loot, troop changes and mail rows is visible.
C15_TickAtomic == [][tk # Idle /\ ~CommitStep => db' = db]_vars

\* a call has failed after it produced, completed an upgrade, moved a raid through
\* arrival and return and wrote mail rows in its working copy
C15_Witness ==
  /\ tk.phase = "failed"
  /\ tk.acc.total_minutes > 0
  /\ tk.acc.upgrades_completed > 0
  /\ tk.acc.raids_arrived > 0
  /\ tk.acc.raids_returned > 0
  /\ Len(tk.acc.db.mail) > Len(db.mail)
  /\ tk.acc.db.cities # db.cities


\* the raid whose mail failed ends resolved in the committed store, with the troops
\* and the loot of the working copy
MailFailureSurvived ==
  tk.phase = "mail_failed" =>
    /\ db'.raids[tk.raid_id].status = "resolved"
    /\ db'.city_troops = tk.acc.db.city_troops
    /\ db'.cities = tk.acc.db.cities

\* C16: a failure of send_raid_result_mail (or of send_mail inside it) while the
\* return pass resolves a raid does not abort the tick: the raid is still set to
\* resolved, its troops and loot are still credited, and the tick's transaction is
\* still committed.
C16_Original == [][MailFailureSurvived]_vars


\* the raid_report rows of the raid
ReportsOf(d, rid) ==
  {i \in 1..Len(d.mail) : d.mail[i].kind = "raid_report" /\ d.mail[i].raid_id = rid}

\* the raid_report rows of the raid addressed to the owner of the city
ReportsTo(d, rid, city_id) ==
  {i \in ReportsOf(d, rid) : d.mail[i].user_id = d.cities[city_id].owner_id}

\* one row for the attacker's owner, one for the target's owner, and no other
OneEach(d, rid) ==
  /\ Cardinality(ReportsOf(d, rid)) = 2
  /\ CityExists(d, d.raids[rid].attacker_city_id) =>
       Cardinality(ReportsTo(d, rid, d.raids[rid].attacker_city_id)) = 1
  /\ CityExists(d, d.raids[rid].target_city_id) =>
       Cardinality(ReportsTo(d, rid, d.raids[rid].target_city_id)) = 1

BothCities17(d, rid) ==
  /\ CityExists(d, d.raids[rid].attacker_city_id)
  /\ CityExists(d, d.raids[rid].target_city_id)

\* C17 as stated: every raid that has reached resolved has exactly one raid_report
\* for the attacker city's owner and exactly one for the target city's owner, in
\* every later state as well.
C17_Original ==
  \A rid \in 1..Len(db.raids) : db.raids[rid].status = "resolved" => OneEach(db, rid)

\* C17: a raid that is not resolved has no raid_report; a resolved raid whose attacker
\* and target cities exist has exactly one raid_report for each owner, in every later
\* state as well; a resolved raid with a missing city has either that pair or none.
C17_MailOncePerParticipant ==
  \A rid \in 1..Len(db.raids) :
     IF db.raids[rid].status # "resolved" THEN ReportsOf(db, rid) = {}
     ELSE IF BothCities17(db, rid) THEN OneEach(db, rid)
     ELSE ReportsOf(db, rid) = {} \/ OneEach(db, rid)

\* one raid resolved by the return pass and reported to both owners, the other one
\* resolved with a city missing and reported to nobody, and a tick has run since
C17_Witness ==
  /\ Len(db.raids) = 2
  /\ \E i \in 1..2 : /\ db.raids[i].status = "resolved"
                     /\ OneEach(db, i)
                     /\ db.raids[i].resolved_at < clock
  /\ \E i \in 1..2 : db.raids[i].status = "resolved" /\ ReportsOf(db, i) = {}
  /\ tk = Idle
  /\ \E c \in DOMAIN db.cities : db.cities[c].last_tick_at = WarmUp + 60


\* the raid_report rows written for the owner of one side of the raid are at most one
ReportedOnce(d, rid) ==
  /\ CityExists(d, d.raids[rid].attacker_city_id) =>
       Cardinality(ReportsTo(d, rid, d.raids[rid].attacker_city_id)) <= 1
  /\ CityExists(d, d.raids[rid].target_city_id) =>
       Cardinality(ReportsTo(d, rid, d.raids[rid].target_city_id)) <= 1

\* C18 as stated: whatever the interleaving of the loads and commits of two requests
\* that run tick_all_cities in sessions of their own, no raid is returned twice: the
\* result mail of a raid is written once for each participant.
C18_Original == \A rid \in 1..Len(db.raids) : ReportedOnce(db, rid)


\* the calls of tick_world_now that went on to tick_all_cities
GateRan == {i \in 1..Len(tk.calls) : tk.calls[i].ran}

\* C19 as stated: in any execution, requests served in parallel included, two calls of
\* tick_all_cities made through tick_world_now have `now` values at least
\* TICK_THROTTLE_SECONDS apart.
C19_Original ==
  \A i \in GateRan, j \in GateRan :
     i < j => tk.calls[j].now - tk.calls[i].now >= TICK_THROTTLE_SECONDS


\* the step is the upgrade pass of the tick in progress
UpgradesPass == tk.phase = "upgrades" /\ tk'.phase = "arrivals"

\* the upgrade rows of the session's working copy that are due at the event time
DueBefore == {i \in 1..Len(tk.acc.db.upgrades) : tk.acc.db.upgrades[i].completes_at <= tk.event_time}

\* the stored rates, caps and floors of the city are the ones its building levels give
Refreshed(d, c) ==
  /\ d.cities[c].townhall_level = d.buildings[c]["townhall"]
  /\ d.cities[c].rate = recalc_rates_for_city(d, c)
  /\ d.cities[c].max = recalc_storage_for_city(d, c).max
  /\ d.cities[c].protected = recalc_storage_for_city(d, c).protected

\* the row is gone, the level is the target level, the city is refreshed and its
\* stocks are the stocks before the pass cut to the new caps, at the same last_tick_at
Completed(up, before, after) ==
  /\ \A j \in 1..Len(after.upgrades) : after.upgrades[j] # up
  /\ after.buildings[up.city_id][up.building_type] = up.to_level
  /\ Refreshed(after, up.city_id)
  /\ \A k \in Res : after.cities[up.city_id].stock[k]
                      = Min2(before.cities[up.city_id].stock[k], after.cities[up.city_id].max[k])
  /\ after.cities[up.city_id].last_tick_at = before.cities[up.city_id].last_tick_at

UpgradesOf(d, city_id) == {i \in 1..Len(d.upgrades) : d.upgrades[i].city_id = city_id}

\* the step ends a start_upgrade request for a city that has an upgrade row
UpgradeRefused(i) ==
  /\ tk.req[i].at = "upgrade"
  /\ tk'.req[i] = NoRequest
  /\ HasUpgrade(db, tk.req[i].city_id)

\* the step lets a start_upgrade request past the test for an existing row
UpgradeAdmitted(i) == tk.req[i].at = "none" /\ tk'.req[i].at = "upgrade"

\* C21: every city has at most one Upgrade row in every reachable state; a start_upgrade
\* for a city that has a row, due or not, is answered 409 and leaves the store as it
\* is, also when it passed the test for an existing row before the row of a parallel
\* request was committed.
C21_OneUpgradePerCity ==
  [][/\ \A c \in DOMAIN db'.cities : Cardinality(UpgradesOf(db', c)) <= 1
     /\ \A i \in Requests :
          /\ UpgradeRefused(i) =>
               /\ db' = db
               /\ tk'.calls[Len(tk'.calls)].city_id = tk.req[i].city_id
               /\ tk'.calls[Len(tk'.calls)].code = 409
          /\ UpgradeAdmitted(i) => ~HasUpgrade(db, tk'.req[i].city_id)
     /\ \A c \in DOMAIN db.cities :
          (Len(tk'.calls) > Len(tk.calls) /\ tk'.calls[Len(tk'.calls)].city_id = c
           /\ HasUpgrade(db, c)) => (db' = db /\ tk'.calls[Len(tk'.calls)].code = 409)]_vars

\* two requests for one city passed the test together, one got 200 and the other 409
\* for the row of the first; a later request met the row when it was already due
C21_Witness ==
  /\ Len(tk.calls) = 3
  /\ tk.calls[1].code = 200 /\ tk.calls[2].code = 409 /\ tk.calls[3].code = 409
  /\ tk.calls[2].error = "Upgrade already in progress (db constraint)"
  /\ tk.calls[3].error = "Upgrade already in progress"
  /\ tk.calls[1].city_id = tk.calls[2].city_id /\ tk.calls[2].city_id = tk.calls[3].city_id
  /\ \E i \in UpgradesOf(db, tk.calls[1].city_id) :
        /\ db.upgrades[i].completes_at <= clock
        /\ db.upgrades[i].started_at = WarmUp


\* the steps of the arrival pass and of the return pass of the tick in progress
ArrivalsPass == tk.phase = "arrivals" /\ tk'.phase = "returns"
ReturnsPass == tk.phase = "returns" /\ tk'.phase \in {"produce", "commit"}

\* the attacker or the target city of the raid does not exist
Orphan(d, rid) ==
  \/ ~CityExists(d, d.raids[rid].attacker_city_id)
  \/ ~CityExists(d, d.raids[rid].target_city_id)

\* nothing but raid rows differs between the two stores, and no raid's loot does
OnlyRaidRows(before, after) ==
  /\ after.cities = before.cities
  /\ after.city_troops = before.city_troops
  /\ after.raid_troops = before.raid_troops
  /\ after.raid_defender_troops = before.raid_defender_troops
  /\ after.mail = before.mail
  /\ \A rid \in 1..Len(before.raids) : after.raids[rid].stolen = before.raids[rid].stolen

\* the arrival pass resolves every due raid with a missing city at its event time
ForcedAtArrival ==
  ArrivalsPass =>
    /\ \A rid \in ArrivalDue(tk.acc.db, tk.event_time) :
          Orphan(tk.acc.db, rid) =>
            tk'.acc.db.raids[rid] = [tk.acc.db.raids[rid] EXCEPT !.status = "resolved",
                                                                 !.resolved_at = tk.event_time]
    /\ (\A rid \in ArrivalDue(tk.acc.fl, tk.event_time) : Orphan(tk.acc.db, rid))
          => OnlyRaidRows(tk.acc.db, tk'.acc.db)

\* a raid the session has resolved is not resolved again by a later arrival pass
ResolvedKept ==
  ArrivalsPass =>
    \A rid \in 1..Len(tk.acc.db.raids) :
       tk.acc.db.raids[rid].status = "resolved" => tk'.acc.db.raids[rid] = tk.acc.db.raids[rid]

\* the return pass resolves a due raid whose attacker is missing and credits no city
ReturnedWithoutAttacker ==
  ReturnsPass =>
    /\ \A rid \in ReturnDue(tk.acc.db, tk.event_time) :
          ~CityExists(tk.acc.db, tk.acc.db.raids[rid].attacker_city_id) =>
             /\ tk'.acc.db.raids[rid].status = "resolved"
             /\ tk'.acc.db.raids[rid].resolved_at = tk.event_time
    /\ (\A rid \in ReturnDue(tk.acc.fl, tk.event_time) :
           ~CityExists(tk.acc.db, tk.acc.db.raids[rid].attacker_city_id))
          => tk'.acc.db.cities = tk.acc.db.cities

LoopAgain == tk.phase = "returns" /\ tk'.phase = "produce"

\* the step is the start of a call of tick_all_cities
TickStarts == tk = Idle /\ tk' # Idle

\* the statements of the loop body still to run in the pass, the commit included
PhaseRank(phase) ==
  CASE phase = "produce" -> 5
    [] phase = "upgrades" -> 4
    [] phase = "arrivals" -> 3
    [] phase = "returns" -> 2
    [] phase = "commit" -> 1

\* a bound on the steps the call has left: five for every second between the event
\* time of the pass and `now`, and the rest of the pass
StepsLeft(t) == IF t = Idle THEN 0 ELSE 5 * (t.now - t.event_time) + PhaseRank(t.phase)

\* C23: every call of tick_all_cities runs to its commit: the first event time lies
\* after the start of the tick or is `now`, a pass that does not end the loop is
\* followed by a pass at a strictly later event time that is at most `now`, so every
\* step of the call lowers a natural number that bounds the steps it has left.
C23_TickTerminates ==
  [][/\ LoopAgain => /\ tk.event_time < tk.now
                     /\ tk'.event_time > tk.event_time
                     /\ tk'.event_time <= tk.now
     /\ TickStarts => /\ tk'.start <= tk'.now
                      /\ tk'.event_time <= tk'.now
                      /\ tk'.event_time > tk'.start \/ tk'.event_time = tk'.now
     /\ tk # Idle => /\ tk.phase \in {"produce", "upgrades", "arrivals", "returns", "commit"}
                     /\ StepsLeft(tk') >= 0
                     /\ StepsLeft(tk') < StepsLeft(tk)]_vars

\* the loop has gone round more than once in a tick that found an upgrade to complete
\* and a raid to arrive at event times before `now`, and is about to commit
C23_Witness ==
  /\ tk.phase = "commit"
  /\ tk.start < tk.acc.current_time
  /\ tk.acc.raids_arrived > 0
  /\ tk.acc.upgrades_completed > 0
  /\ \E rid \in 1..Len(tk.acc.db.raids) : tk.acc.db.raids[rid].arrives_at < tk.now
  /\ \E rid \in 1..Len(tk.acc.db.raids) : tk.acc.db.raids[rid].returns_at > tk.acc.db.raids[rid].arrives_at


\* p <= q for two rates given as <<numerator, denominator>> with positive denominators
RateLeq(p, q) == p[1] * q[2] <= q[1] * p[2]

\* the rates lie in [0.05, 0.60] and [0.10, 0.75]
RatesClamped(rates) ==
  /\ RateLeq(<<1, 20>>, rates.attacker) /\ RateLeq(rates.attacker, <<3, 5>>)
  /\ RateLeq(<<1, 10>>, rates.defender) /\ RateLeq(rates.defender, <<3, 4>>)

\* C24: with the attacker's lines fixed and both powers positive, a garrison of greater
\* or equal power gives an attacker loss rate that is not lower and a defender loss
\* rate that is not higher; the attacker rate lies in [0.05, 0.60] and the defender
\* rate in [0.10, 0.75].
C24_CombatMonotone ==
  tk.phase = "fought" =>
     /\ DefPower(tk.def_more) >= DefPower(tk.def_rows)
     /\ RateLeq(tk.rates.attacker, tk.rates_more.attacker)
     /\ RateLeq(tk.rates_more.defender, tk.rates.defender)
     /\ RatesClamped(tk.rates)
     /\ RatesClamped(tk.rates_more)

\* a reinforcement that moved both rates strictly, neither of them at a clamp
C24_Witness ==
  /\ tk.phase = "fought"
  /\ ~RateLeq(tk.rates_more.attacker, tk.rates.attacker)
  /\ ~RateLeq(tk.rates.defender, tk.rates_more.defender)
  /\ tk.rates_more.attacker \notin {<<1, 20>>, <<3, 5>>}
  /\ tk.rates.defender \notin {<<1, 10>>, <<3, 4>>}
  /\ \E c \in AttackerCodes : tk.atk_lines[c].count_sent = 0


\* no garrison rows, or only rows with count 0
EmptyGarrison(d, city_id) ==
  city_id \notin DOMAIN d.city_troops
    \/ \A c \in DOMAIN d.city_troops[city_id] : d.city_troops[city_id][c] <= 0

\* the raids the arrival pass at hand visits whose combat meets an empty garrison
ZeroDefenderRaids ==
  {rid \in ArrivalDue(tk.acc.fl, tk.event_time) :
     /\ CityExists(tk.acc.db, tk.acc.db.raids[rid].attacker_city_id)
     /\ CityExists(tk.acc.db, tk.acc.db.raids[rid].target_city_id)
     /\ EmptyGarrison(tk.acc.db, tk.acc.db.raids[rid].target_city_id)}

NoLossesOn(before, after, rid) ==
  /\ \A c \in DOMAIN after.raid_troops[rid] : after.raid_troops[rid][c].count_lost = 0
  /\ \A c \in DOMAIN after.raid_defender_troops[rid] :
        \/ after.raid_defender_troops[rid][c].count_lost = 0
        \/ /\ c \in DOMAIN before.raid_defender_troops[rid]
           /\ after.raid_defender_troops[rid][c] = before.raid_defender_troops[rid][c]
  /\ before.raids[rid].target_city_id \in DOMAIN before.city_troops =>
        after.city_troops[before.raids[rid].target_city_id]
           = before.city_troops[before.raids[rid].target_city_id]

LossesBounded(d) ==
  /\ \A rid \in DOMAIN d.raid_troops : \A c \in DOMAIN d.raid_troops[rid] :
        /\ 0 <= d.raid_troops[rid][c].count_lost
        /\ d.raid_troops[rid][c].count_lost <= d.raid_troops[rid][c].count_sent
  /\ \A rid \in DOMAIN d.raid_defender_troops : \A c \in DOMAIN d.raid_defender_troops[rid] :
        /\ 0 <= d.raid_defender_troops[rid][c].count_lost
        /\ d.raid_defender_troops[rid][c].count_lost <= d.raid_defender_troops[rid][c].count_start

\* C26: in every reachable state, committed or in the working copy of a tick, every
\* RaidTroop line has 0 <= count_lost <= count_sent and every RaidDefenderTroop row has
\* 0 <= count_lost <= count_start.
C26_LossesWithinCounts ==
  /\ LossesBounded(db)
  /\ tk # Idle => LossesBounded(tk.acc.db)

\* a committed raid that has come home with losses on both sides, the garrison row of
\* its snapshot lost whole
C26_Witness ==
  \E rid \in DOMAIN db.raid_troops :
     /\ db.raids[rid].status = "resolved"
     /\ \E c \in DOMAIN db.raid_troops[rid] :
           /\ db.raid_troops[rid][c].count_lost > 0
           /\ db.raid_troops[rid][c].count_lost < db.raid_troops[rid][c].count_sent
     /\ \E c \in DOMAIN db.raid_defender_troops[rid] :
           /\ db.raid_defender_troops[rid][c].count_lost > 0
           /\ db.raid_defender_troops[rid][c].count_lost
                 = db.raid_defender_troops[rid][c].count_start


\* the loot of every raid of store d is non-negative, and a raid that is enroute, which
\* has neither arrived nor been recalled, has no returns_at
LootAndReturnTimes(d) ==
  \A rid \in DOMAIN d.raids :
     /\ \A x \in DOMAIN d.raids[rid].stolen : d.raids[rid].stolen[x] >= 0
     /\ d.raids[rid].status = "enroute" => d.raids[rid].returns_at = None

\* the loot of a raid changes only in a step that takes the raid out of enroute
LootWrittenOnce(before, after) ==
  \A rid \in DOMAIN before.raids :
     after.raids[rid].stolen # before.raids[rid].stolen =>
        before.raids[rid].status = "enroute" /\ after.raids[rid].status # "enroute"

\* C27: a raid's stolen amounts are non-negative and written at most once, at arrival,
\* and a raid that is still enroute and has never been recalled has returns_at = null.
C27_Original == [][LootAndReturnTimes(db') /\ LootWrittenOnce(db, db')]_vars


\* no city of store `before` has a later last_tick_at than it has in store `after`
TickTimesKept(before, after) ==
  \A c \in DOMAIN before.cities :
     before.cities[c].last_tick_at # None =>
        /\ c \in DOMAIN after.cities
        /\ after.cities[c].last_tick_at # None
        /\ after.cities[c].last_tick_at >= before.cities[c].last_tick_at

\* every city of `before` that was ticked at or before now is, in `after`, ticked
\* within the last minute before now
TickedUpTo(before, after, now) ==
  \A c \in DOMAIN before.cities :
     (before.cities[c].last_tick_at # None /\ before.cities[c].last_tick_at <= now) =>
        /\ now - 60 < after.cities[c].last_tick_at
        /\ after.cities[c].last_tick_at <= now

\* the step is the commit of a tick request
TickCommits(i) == tk.req[i].at = "tick" /\ tk'.req[i].at = "none"

\* C28: no operation lowers a city's last_tick_at in the store, and in the rows that
\* tick_all_cities(now) leaves to its commit every city that had a non-null
\* last_tick_at <= now before the call has now - 60s < last_tick_at <= now.
C28_Original ==
  [][/\ TickTimesKept(db, db')
     /\ \A i \in Requests :
           TickCommits(i) =>
              TickedUpTo(tk.req[i].snap, tick_all_cities(tk.req[i].snap, tk.req[i].now).db,
                         tk.req[i].now)]_vars


\* 0 <= protected <= max with protected between 25% and 40% of max, per resource
ProtectedWithinCaps(s) ==
  \A k \in Res :
     /\ 0 <= s.protected[k] /\ s.protected[k] <= s.max[k]
     /\ 25 * s.max[k] <= 100 * s.protected[k]
     /\ 100 * s.protected[k] <= 40 * s.max[k]

\* C29: for every warehouse level, a missing warehouse row included, the derivation
\* gives 0 <= protected_X <= max_X with protected_X between 25% and 40% of max_X; a
\* warehouse that is not lower gives a protected fraction that is not lower; and the
\* city whose caps were refreshed has protected_X <= max_X.
C29_ProtectedWithinCaps ==
  tk.phase = "refreshed" =>
     /\ ProtectedWithinCaps(tk.storage)
     /\ ProtectedWithinCaps(tk.storage_more)
     /\ \A k \in Res : tk.storage.protected[k] * tk.storage_more.max[k]
                          <= tk.storage_more.protected[k] * tk.storage.max[k]
     /\ \A k \in Res : db.cities[1].protected[k] <= db.cities[1].max[k]
     /\ db.cities[1].max = tk.storage.max
     /\ db.cities[1].protected = tk.storage.protected

\* a refresh at the level whose stone cap truncates below 29%, next to a level at the
\* 40% clamp
C29_Witness ==
  /\ tk.phase = "refreshed"
  /\ tk.wh_lvl = 3
  /\ 100 * db.cities[1].protected["stone"] < 29 * db.cities[1].max["stone"]
  /\ tk.wh_more = MaxWarehouseLevel
  /\ 100 * tk.storage_more.protected["food"] = 40 * tk.storage_more.max["food"]


\* the last target time of the sequence and the last_tick_at the calls started from
LastTarget == tk.times[Len(tk.times)]
FirstTickAt == tk.start.cities[1].last_tick_at

\* the calls applied `minutes` minutes in all, moved last_tick_at by exactly as many,
\* and left the stocks a single call for the last target time leaves
SplitAgrees(minutes) ==
  /\ tk.minutes = minutes
  /\ db.cities[1].last_tick_at = FirstTickAt + minutes * SECONDS_PER_MINUTE
  /\ db.cities[1].stock = apply_city_tick(tk.start, 1, LastTarget).db.cities[1].stock

\* C30 as stated: for any non-decreasing sequence of target times the minutes applied
\* sum to floor((tn - L0)/60s), last_tick_at ends at L0 plus that many minutes, and the
\* stocks equal those of a single call for tn.
C30_Original ==
  tk.phase = "returned" => SplitAgrees((LastTarget - FirstTickAt) \div SECONDS_PER_MINUTE)

\* C30 amended: the minutes applied sum to max(0, floor((tn - L0)/60s)): a sequence
\* that ends before L0 applies no minute and leaves the city as it was.
C30_SplitTicks ==
  tk.phase = "returned" =>
     SplitAgrees(Max2(0, (LastTarget - FirstTickAt) \div SECONDS_PER_MINUTE))

\* three calls, two of them applying minutes, the first leaving 59 seconds to the
\* next, with the food stock cut at its cap
C30_Witness ==
  /\ tk.phase = "returned"
  /\ tk.times = <<WarmUp + 1, WarmUp + 119, WarmUp + 190>>
  /\ tk.minutes = 3
  /\ db.cities[1].stock["food"] = db.cities[1].max["food"]
  /\ tk.start.cities[1].stock["food"] < db.cities[1].max["food"]


\* the exact share of resource k is ShareNum(k) / SumRes(tk.loot)
ShareNum(k) == tk.loot[k] * Min2(tk.capacity, SumRes(tk.loot))
ShareFloor(k) == ShareNum(k) \div SumRes(tk.loot)
ShareRemainder(k) == ShareNum(k) % SumRes(tk.loot)

\* C31: every amount _proportional_take returns is the floor or the ceiling of the
\* resource's exact share loot_k * min(capacity, total) / total, the amounts add up to
\* min(capacity, total), and no resource gets a unit above its floor while a resource
\* with a larger fractional remainder gets none.
C31_LargestRemainder ==
  (tk.phase = "taken" /\ SumRes(tk.loot) > 0 /\ tk.capacity > 0) =>
     /\ \A k \in Res :
           \/ tk.taken[k] = ShareFloor(k)
           \/ ShareRemainder(k) > 0 /\ tk.taken[k] = ShareFloor(k) + 1
     /\ SumRes(tk.taken) = Min2(tk.capacity, SumRes(tk.loot))
     /\ \A j, k \in Res :
           (tk.taken[j] > ShareFloor(j) /\ tk.taken[k] = ShareFloor(k)) =>
              ShareRemainder(j) >= ShareRemainder(k)

\* two units left after flooring, handed to the two largest of three distinct
\* remainders
C31_Witness ==
  /\ tk.phase = "taken" /\ SumRes(tk.loot) > 0 /\ tk.capacity > 0
  /\ \E i, j, k \in Res :
        /\ tk.taken[i] = ShareFloor(i) + 1
        /\ tk.taken[j] = ShareFloor(j) + 1
        /\ tk.taken[k] = ShareFloor(k)
        /\ ShareRemainder(i) > ShareRemainder(j)
        /\ ShareRemainder(j) > ShareRemainder(k)
        /\ ShareRemainder(k) > 0


\* outbound_seconds as the arrival pass repairs it on raid r
RepairedOutbound(r) ==
  IF r.outbound_seconds > 0 THEN r.outbound_seconds ELSE Max2(1, r.arrives_at - r.created_at)

\* return_seconds as the arrival pass repairs it on raid r
RepairedReturn(r) ==
  IF r.return_seconds > 0 THEN r.return_seconds ELSE RepairedOutbound(r)

\* the raids the arrival pass at hand moves to returning
MovedToReturning ==
  {rid \in ArrivalDue(tk.acc.fl, tk.event_time) :
     /\ CityExists(tk.acc.db, tk.acc.db.raids[rid].attacker_city_id)
     /\ CityExists(tk.acc.db, tk.acc.db.raids[rid].target_city_id)}

ReturnTimed(before, after) ==
  /\ after.status = "returning"
  /\ after.resolved_at = None
  /\ after.return_seconds >= 1
  /\ after.returns_at = after.arrives_at + after.return_seconds
  /\ after.returns_at > after.arrives_at
  /\ after.outbound_seconds = RepairedOutbound(before)
  /\ after.return_seconds = RepairedReturn(before)

\* C32: a raid the arrival pass moves to returning has return_seconds >= 1,
\* returns_at = arrives_at + return_seconds and no resolved_at; a stored return_seconds
\* <= 0 is replaced by outbound_seconds, a stored outbound_seconds <= 0 by
\* arrives_at - created_at (at least 1), and both are stored on the raid.
C32_ReturnTiming ==
  [][ArrivalsPass =>
       \A rid \in MovedToReturning :
          ReturnTimed(tk.acc.db.raids[rid], tk'.acc.db.raids[rid])]_vars

\* a committed returning raid whose two stored seconds were 0 and now hold the 30
\* seconds between created_at and arrives_at
C32_Witness ==
  /\ Len(db.raids) >= 1
  /\ db.raids[1].status = "returning"
  /\ db.raids[1].arrives_at - db.raids[1].created_at = 30
  /\ db.raids[1].outbound_seconds = 30
  /\ db.raids[1].return_seconds = 30
  /\ db.raids[1].returns_at = db.raids[1].arrives_at + 30


\* the production step of one pass through the tick loop
ProductionPass == tk.phase = "produce" /\ tk'.phase = "upgrades"

\* the building levels of the city with every upgrade row still in the working copy
\* taken at its from_level
LevelsBeforeUpgrades(d, c) ==
  [t \in DOMAIN d.buildings[c] |->
     LET rows == {i \in 1..Len(d.upgrades) :
                    d.upgrades[i].city_id = c /\ d.upgrades[i].building_type = t}
     IN IF rows = {} THEN d.buildings[c][t] ELSE d.upgrades[MinOf(rows)].from_level]

\* the stock after `minutes` whole minutes at the rates and caps of the given levels
CreditedStock(city, levels, minutes) ==
  LET only == [buildings |-> <<levels>>]
      rates == recalc_rates_for_city(only, 1)
      caps == recalc_storage_for_city(only, 1).max
  IN [k \in Res |-> Min2(city.stock[k] + rates[k] * minutes, caps[k])]

\* the city is credited its whole minutes up to the event time at the levels it had
\* before the upgrades still open
ProducedBeforeUpgrades(c) ==
  LET city == tk.acc.db.cities[c]
      minutes == ElapsedMinutes(city, tk.event_time)
      after == tk'.acc.db.cities[c]
  IN /\ tk'.acc.db.buildings = tk.acc.db.buildings
     /\ tk'.acc.db.upgrades = tk.acc.db.upgrades
     /\ minutes > 0 =>
          /\ after.stock = CreditedStock(city, LevelsBeforeUpgrades(tk.acc.db, c), minutes)
          /\ after.last_tick_at = city.last_tick_at + minutes * SECONDS_PER_MINUTE
     /\ minutes <= 0 => after.stock = city.stock

\* the due upgrade row is applied and gone, and the city's caps and floors are the
\* ones of the new levels
UpgradeTookEffect(i) ==
  LET up == tk.acc.db.upgrades[i]
      d == tk'.acc.db
  IN /\ d.buildings[up.city_id][up.building_type] = up.to_level
     /\ \A j \in 1..Len(d.upgrades) : d.upgrades[j] # up
     /\ d.cities[up.city_id].max = recalc_storage_for_city(d, up.city_id).max
     /\ d.cities[up.city_id].protected = recalc_storage_for_city(d, up.city_id).protected
     /\ d.cities[up.city_id].rate = recalc_rates_for_city(d, up.city_id)

\* the raids the arrival pass visits for the first time
FirstArrivals ==
  {rid \in ArrivalDue(tk.acc.fl, tk.event_time) :
     /\ tk.acc.db.raids[rid].status = "enroute"
     /\ CityExists(tk.acc.db, tk.acc.db.raids[rid].attacker_city_id)
     /\ CityExists(tk.acc.db, tk.acc.db.raids[rid].target_city_id)}

\* the raid takes its share of the target's stock, as production and the upgrade pass
\* left it, above the floors of the target's levels after the upgrade pass
LootsAfterUpgrades(rid) ==
  LET r == tk.acc.db.raids[rid]
      target == tk.acc.db.cities[r.target_city_id]
      floors == recalc_storage_for_city(tk.acc.db, r.target_city_id).protected
      above == [k \in Res |-> Max2(0, target.stock[k] - floors[k])]
  IN tk'.acc.db.raids[rid].stolen = proportional_take(above, r.carry_capacity)

\* C33: within a pass of the tick loop production runs before the upgrades and the
\* upgrades before the arrivals: a city's whole minutes up to the event time are
\* credited at the levels it had before the upgrades still open, a due upgrade is then
\* applied so that later minutes are credited at the new levels, and a raid arriving
\* at that instant loots the stock left by the production above the floors of the new
\* levels.
C33_ProduceUpgradeArrive ==
  [][/\ ProductionPass => \A c \in DOMAIN tk.acc.db.cities : ProducedBeforeUpgrades(c)
     /\ UpgradesPass => \A i \in DueBefore : UpgradeTookEffect(i)
     /\ ArrivalsPass => \A rid \in FirstArrivals : LootsAfterUpgrades(rid)]_vars

\* the raid has arrived at the instant the target's warehouse upgrade completed, in a
\* pass that credited the target a minute, and has looted above the new floors
C33_Witness ==
  /\ tk.phase = "returns"
  /\ tk.event_time = UpgradeDoneAt("warehouse")
  /\ Len(tk.acc.db.raids) = 1
  /\ tk.acc.db.raids[1].arrives_at = tk.event_time
  /\ tk.acc.db.raids[1].status = "returning"
  /\ SumRes(tk.acc.db.raids[1].stolen) > 0
  /\ tk.acc.db.buildings[UpgradedCity]["warehouse"] = 2
  /\ tk.acc.db.upgrades = << >>
  /\ tk.acc.db.cities[UpgradedCity].last_tick_at = WarmUp + 2 * SECONDS_PER_MINUTE
  /\ UpgradedCity \in tk.acc.ticked_city_ids


\* the raids the arrival pass of the step is about to visit
DueNow == ArrivalDue(tk.acc.fl, tk.event_time)

\* the working copy the arrival pass leaves when it visits the due raids in this order
ArrivedIn(order) == resolve_arrivals_in(AccSession(tk.acc), tk.event_time, order).db

\* C34: the store after the arrival pass does not depend on the order in which the
\* query returned the due raids, in particular for two raids that arrive at one
\* target at the same event time.
C34_Original ==
  tk.phase = "arrivals" => \A o1, o2 \in Orders(DueNow) : ArrivedIn(o1) = ArrivedIn(o2)


\* the call returns without the tick: ticking is disabled or the throttle holds
GateSkipped ==
  /\ tk.phase = "gate"
  /\ ~tick_on_read \/ Throttled(last_global_tick_at, tk.now)

\* tick_all_cities has committed and returned to tick_world_now
TickReturned == tk.phase = "commit" /\ tk' = Idle /\ db' = tk.acc.db

\* no later call is throttled by the remembered time
NotThrottledFrom(last, now) == \A t \in Times : t >= now => ~Throttled(last, t)

\* C35: a call of tick_world_now that does not run the tick (ticking disabled or
\* throttled) starts no tick and changes neither the store nor the remembered time;
\* the remembered time changes only when the tick has committed and returned, and then
\* to the call's now; a call whose tick raised leaves it unchanged, so that no later
\* call is throttled because of the failed one.
C35_GateFrame ==
  [][/\ GateSkipped => tk' = Idle /\ db' = db /\ last_global_tick_at' = last_global_tick_at
     /\ last_global_tick_at' # last_global_tick_at =>
          TickReturned /\ last_global_tick_at' = tk.now
     /\ tk.phase = "failed" =>
          /\ db' = db
          /\ last_global_tick_at' = last_global_tick_at
          /\ NotThrottledFrom(last_global_tick_at', tk.now)]_vars

\* a gated tick has raised after it resolved an arrival in its working copy, with
\* an earlier tick remembered
C35_Witness ==
  /\ tk.phase = "failed"
  /\ tick_on_read
  /\ last_global_tick_at = WarmUp
  /\ tk.now > WarmUp
  /\ \E rid \in 1..Len(db.raids) :
        db.raids[rid].status = "enroute" /\ tk.acc.db.raids[rid].status = "returning"


\* what the raids that arrive in the step for the first time carry away from city c
CarriedFrom(c, k) ==
  LET hits == {rid \in FirstArrivals : tk.acc.db.raids[rid].target_city_id = c}
  IN SumOver(hits, [rid \in hits |-> tk'.acc.db.raids[rid].stolen[k]])

\* the arrival pass visits every due raid for the first time
OnlyFirstArrivals == ArrivalDue(tk.acc.fl, tk.event_time) = FirstArrivals

\* C36: an arrival pass raises no stock of a target, and every stock of a city falls
\* by exactly what the raids arriving at it carry away, also when the stock was below
\* the protected floor.
C36_Original ==
  [][ArrivalsPass /\ OnlyFirstArrivals =>
       \A c \in DOMAIN tk.acc.db.cities : \A k \in Res :
          /\ tk'.acc.db.cities[c].stock[k] <= tk.acc.db.cities[c].stock[k]
          /\ tk.acc.db.cities[c].stock[k] - tk'.acc.db.cities[c].stock[k] = CarriedFrom(c, k)]_vars


\* the troops of the code that city c has away on a raid (alive or lost) or has lost
\* for good on a resolved raid
TroopsAway(d, c, code) ==
  LET mine == {rid \in 1..Len(d.raids) :
                 d.raids[rid].attacker_city_id = c /\ code \in DOMAIN d.raid_troops[rid]}
  IN SumOver(mine, [rid \in mine |->
               IF d.raids[rid].status = "resolved" THEN d.raid_troops[rid][code].count_lost
               ELSE d.raid_troops[rid][code].count_sent])

\* the defenders of the code that city c has lost to raids
DefendersLost(d, c, code) ==
  LET hits == {rid \in 1..Len(d.raids) :
                 d.raids[rid].target_city_id = c /\ code \in DOMAIN d.raid_defender_troops[rid]}
  IN SumOver(hits, [rid \in hits |-> d.raid_defender_troops[rid][code].count_lost])

\* the garrison every city is given at the end of the warm-up
WarmGarrison(code) == IF code = "t1_inf" THEN 10 ELSE 0

\* every troop the city had after the warm-up is in its garrison, away, or lost
TroopsConserved(d) ==
  \A c \in DOMAIN d.cities : \A code \in TroopCodes :
     /\ Garrison(d, c, code) >= 0
     /\ Garrison(d, c, code) + TroopsAway(d, c, code) + DefendersLost(d, c, code)
          = WarmGarrison(code)

\* C37: without training and admin edits, in the committed store and in the working
\* copy of every tick, a city's garrison plus the troops it has sent on unresolved raids
\* plus the losses of its resolved raids plus its losses as a defender is the garrison
\* it started with: a raid takes count_sent out of the garrison, its resolution brings
\* count_sent - count_lost back, once, whatever ticks and recalls follow, and no
\* garrison count is negative.
C37_TroopsConserved ==
  /\ TroopsConserved(db)
  /\ tk.phase \in {"produce", "upgrades", "arrivals", "returns", "commit"} => TroopsConserved(tk.acc.db)

\* a raid that lost troops is resolved, a later raid of the same city is away, and the
\* garrison is short of both
C37_Witness ==
  /\ tk = Idle
  /\ Len(db.raids) = 2
  /\ db.raids[1].status = "resolved" /\ db.raids[2].status = "returning"
  /\ db.raids[1].attacker_city_id = db.raids[2].attacker_city_id
  /\ db.raid_troops[1]["t1_inf"].count_lost > 0
  /\ Garrison(db, db.raids[1].attacker_city_id, "t1_inf")
       = WarmGarrison("t1_inf")
           - db.raid_troops[1]["t1_inf"].count_lost - db.raid_troops[2]["t1_inf"].count_sent


\* the raid was recalled before it arrived: the recall cut its outbound_seconds to the
\* time it had marched
RecalledEarly(d, rid) ==
  d.raids[rid].created_at + d.raids[rid].outbound_seconds < d.raids[rid].arrives_at

\* the raid is on its way back or home, with no loot, no casualties and no snapshot
NeverHit(d, rid) ==
  /\ d.raids[rid].status \in {"returning", "resolved"}
  /\ d.raids[rid].stolen = ZeroRes
  /\ \A code \in DOMAIN d.raid_troops[rid] : d.raid_troops[rid][code].count_lost = 0
  /\ DOMAIN d.raid_defender_troops[rid] = {}

EarlyRecallsNeverHit(d) ==
  \A rid \in 1..Len(d.raids) : RecalledEarly(d, rid) => NeverHit(d, rid)

\* the recall endpoint has taken the raid out of enroute before its arrives_at
EarlyRecallOf(rid) ==
  /\ tk = Idle /\ tk' = Idle
  /\ rid <= Len(db.raids) /\ Len(db'.raids) = Len(db.raids)
  /\ db.raids[rid].status = "enroute" /\ clock < db.raids[rid].arrives_at
  /\ db'.raids[rid] # db.raids[rid]

\* no raid that was not recalled early is due at city c in the arrival pass
OnlyEarlyRecallsAt(c) ==
  \A rid \in ArrivalDue(tk.acc.fl, tk.event_time) :
     tk.acc.db.raids[rid].target_city_id = c => RecalledEarly(tk.acc.db, rid)

\* the raids of city a that the return pass of the step resolves
ResolvedNow(a) ==
  {rid \in 1..Len(tk.acc.db.raids) :
     /\ tk.acc.db.raids[rid].attacker_city_id = a
     /\ tk.acc.db.raids[rid].status = "returning"
     /\ tk'.acc.db.raids[rid].status = "resolved"}

SentOn(d, S, code) ==
  LET with == {rid \in S : code \in DOMAIN d.raid_troops[rid]}
  IN SumOver(with, [rid \in with |-> d.raid_troops[rid][code].count_sent])

\* C38: a raid recalled while enroute before its arrives_at becomes returning with no
\* loot and the recall touches no city and no garrison; no arrival pass visits it or
\* changes the stocks or the garrison of a city at which only such raids would be due;
\* it never has loot, casualties or a defender snapshot; and the return pass that
\* resolves it gives the attacker's garrison the full count_sent of every line.
C38_EarlyRecall ==
  [][/\ EarlyRecallsNeverHit(db')
     /\ \A rid \in 1..Len(db.raids) :
          EarlyRecallOf(rid) =>
            /\ RecalledEarly(db', rid) /\ db'.raids[rid].status = "returning"
            /\ db'.cities = db.cities /\ db'.city_troops = db.city_troops
     /\ tk'.phase \in {"produce", "upgrades", "arrivals", "returns", "commit"} =>
          EarlyRecallsNeverHit(tk'.acc.db)
     /\ ArrivalsPass =>
          /\ \A rid \in 1..Len(tk.acc.db.raids) :
               RecalledEarly(tk.acc.db, rid) =>
                 /\ tk'.acc.db.raids[rid] = tk.acc.db.raids[rid]
                 /\ tk'.acc.db.raid_troops[rid] = tk.acc.db.raid_troops[rid]
          /\ \A c \in DOMAIN tk.acc.db.cities :
               OnlyEarlyRecallsAt(c) =>
                 /\ tk'.acc.db.cities[c].stock = tk.acc.db.cities[c].stock
                 /\ tk'.acc.db.city_troops[c] = tk.acc.db.city_troops[c]
     /\ ReturnsPass =>
          \A a \in DOMAIN tk.acc.db.cities : \A code \in TroopCodes :
             (\A rid \in ResolvedNow(a) : RecalledEarly(tk.acc.db, rid)) =>
               Garrison(tk'.acc.db, a, code)
                 = Garrison(tk.acc.db, a, code) + SentOn(tk.acc.db, ResolvedNow(a), code)]_vars

\* a raid recalled before its arrival has been resolved by a tick that ran past its
\* arrives_at, and its attacker has the garrison it started with
C38_Witness ==
  /\ tk = Idle
  /\ \E rid \in 1..Len(db.raids) :
        /\ RecalledEarly(db, rid)
        /\ db.raids[rid].status = "resolved"
        /\ db.cities[db.raids[rid].target_city_id].last_tick_at > db.raids[rid].arrives_at
        /\ Garrison(db, db.raids[rid].attacker_city_id, "t1_inf") = WarmGarrison("t1_inf")


\* C39: a request that leaves a returning raid returning never moves its returns_at
\* to a later time; in particular a recall of a returning raid never delays it, also
\* when the return was already due and the gate did not run the tick.
C39_Original ==
  [][\A rid \in 1..Len(db.raids) :
       (/\ Len(db'.raids) >= rid
        /\ db.raids[rid].status = "returning"
        /\ db'.raids[rid].status = "returning") =>
          db'.raids[rid].returns_at <= db.raids[rid].returns_at]_vars


\* the columns of a raid that its resolution fixes
ResolutionOf(r) == <<r.status, r.resolved_at, r.returns_at, r.stolen>>

\* every raid that is resolved in the first store has the same resolution in the second
ResolvedStays(before, after) ==
  \A rid \in 1..Len(before.raids) :
     before.raids[rid].status = "resolved" =>
       /\ rid <= Len(after.raids)
       /\ ResolutionOf(after.raids[rid]) = ResolutionOf(before.raids[rid])

\* the recall endpoint refuses the resolved raids of the store and changes nothing
RecallRefused(d, now) ==
  \A rid \in 1..Len(d.raids) :
     d.raids[rid].status = "resolved" =>
       \A user \in DOMAIN d.cities, is_admin \in BOOLEAN :
          /\ ~RecallOk(d, user, rid, is_admin)
          /\ recall_raid(d, user, rid, is_admin, now) = d

\* C40: resolved is terminal.  No request changes the status, resolved_at, returns_at
\* or stolen amounts of a raid that is resolved in the committed store; no pass of a
\* tick changes them for a raid that is resolved in the tick's working copy; and the
\* recall endpoint refuses a resolved raid and changes nothing.
C40_ResolvedTerminal ==
  [][/\ ResolvedStays(db, db')
     /\ TickStarts => ResolvedStays(db, tk'.acc.db)
     /\ (tk # Idle /\ tk' # Idle) => ResolvedStays(tk.acc.db, tk'.acc.db)
     /\ RecallRefused(db, clock)]_vars

\* a resolved raid is in the store while a later tick resolves another raid, and the
\* clock has passed the resolution
C40_Witness ==
  /\ tk.phase = "commit"
  /\ Len(db.raids) = 2
  /\ db.raids[1].status = "resolved"
  /\ db.raids[1].resolved_at < tk.now
  /\ db.raids[2].status # "resolved"
  /\ tk.acc.db.raids[2].status = "resolved"

====
